---- MODULE Spec2Model ----
(***************************************************************************)
(* Form 4 insider scanner: the sell tier classifier (analyzer.py), the     *)
(* backtest cluster detector (insider_cluster_backtest.py), and the daily  *)
(* scan with its persisted tables and alert dedup ledger (main.py,         *)
(* database.py, cross_signal_scanner.py).                                  *)
(*                                                                         *)
(* The specifications share the variables:                                 *)
(*   SpecSell    - classify_sell and find_sell_signals as pure functions   *)
(*   SpecCluster, SpecOrder, SpecScenario, SpecDedup - detect_clusters     *)
(*   SpecLedger  - the alert ledger API                                    *)
(*   Spec        - the scan state machine over the SQLite tables           *)
(*   SpecFetch   - the fetch loop on any feed                              *)
(*   SpecCross, SpecMacro, SpecTier2 - parts of cross_signal_scanner.py    *)
(*   SpecLive, SpecScore, SpecAlerts - ClusterAnalyzer                     *)
(* Dollar amounts are whole dollars; dates are day numbers.                *)
(***************************************************************************)
EXTENDS Integers, Sequences, FiniteSets, TLC

VARIABLES
    \* ---- SpecSell: inputs and results of the sell classifier
    sell,            \* <<the dict handed to classify_sell>>, or <<>> for none
    classified,      \* <<its result>>, or NotRun
    raw_sells,       \* the rows get_significant_sells returned
    sell_signals,    \* <<the list find_sell_signals returned>>, or NotRun
    \* ---- SpecCluster: inputs and results of detect_clusters
    purchases,       \* the purchases DataFrame, a sequence of rows
    window_days,     \* detect_clusters parameter
    min_insiders,    \* detect_clusters parameter
    clusters_df,     \* <<the rows of the DataFrame detect_clusters returned>>, or NotRun
    \* ---- Spec: persisted state and the position of the running scan
    clock,           \* the calendar day datetime.now() reports
    transactions,    \* table form4_transactions, in id order
    processed,       \* table processed_filings: accession -> status
    sent_alerts,     \* table sent_alerts, in id order
    outbox,          \* every email handed to SMTP so far
    cross_log,       \* number of lines appended to cross_signal_log.csv
    pc,              \* position of the running main.py scan, "idle" if none
    args,            \* sys.argv flags of the running scan
    scan,            \* local variables of the running scan
    runs_started,    \* number of program runs started so far (bounded)
    faults,          \* number of environment faults so far (bounded)
    lost_records,    \* keys emailed by a run that was interrupted before recording
    weekend_skips,   \* number of runs that returned at the weekend guard
    \* ---- SpecLedger: the last call made on the alert ledger API
    ledger_calls,    \* the calls made on the alert ledger API, with their results
    \* ---- SpecCross: cross_signal_scanner.py steps 3-4.5 on one Tier2 list
    tier2_purchases,   \* the Tier2 purchases handed to classify_signals
    si_data,           \* what fetch_short_interest returned: ticker -> record
    options_available, \* OPTIONS_CHECK_AVAILABLE
    signals,           \* the signals list, NotRun before classify_signals
    cross_pc,          \* "input", "classified" or "checked"
    \* ---- SpecLive: ClusterAnalyzer.find_clusters on one form4_transactions table
    live_table,        \* rows of form4_transactions
    live_clusters,     \* result of find_clusters, NotRun before the call
    alerts_out,        \* result of get_new_alerts, NotRun before the call
    \* ---- SpecFetch: fetch_and_store_filings on any feed
    feed,              \* the feed the running fetch loop was given
    \* ---- SpecScore: _calculate_signal_score on one cluster
    score_in,          \* the cluster dict
    score_out,         \* <<the score>>, or NotRun
    \* ---- SpecMacro: get_macro_regime on one state of the macro database
    macro_in,          \* what the macro database holds, or how the read fails
    macro_out,         \* <<the regime dict>>, or NotRun
    \* ---- SpecTier2: filter_tier2 on one purchase list
    tier2_in,          \* the purchases handed to filter_tier2
    tier2_out          \* <<the list it returned>>, or NotRun

sellVars    == <<sell, classified, raw_sells, sell_signals>>
clusterVars == <<purchases, window_days, min_insiders, clusters_df>>
scanVars    == <<clock, transactions, processed, sent_alerts, outbox, cross_log,
                 pc, args, scan, runs_started, faults, lost_records, weekend_skips>>
crossVars   == <<tier2_purchases, si_data, options_available, signals, cross_pc>>
liveVars    == <<live_table, live_clusters>>
fnVars      == <<alerts_out, feed, score_in, score_out, macro_in, macro_out, tier2_in, tier2_out>>
otherVars   == <<sellVars, clusterVars, ledger_calls, crossVars, liveVars, fnVars>>   \* untouched by the scans
vars        == <<sellVars, clusterVars, scanVars, ledger_calls, crossVars, liveVars, fnVars>>

NotRun == <<>>      \* a result variable before its function has run; <<r>> after
NULL   == -1          \* SQL NULL / Python None in a numeric column
None   == "None"      \* Python None in a string-valued field

(***************************************************************************)
(* Generic helpers                                                         *)
(***************************************************************************)
RECURSIVE SumSeq(_)
SumSeq(s) == IF s = <<>> THEN 0 ELSE Head(s) + SumSeq(Tail(s))

SeqToSet(s) == {s[i] : i \in 1..Len(s)}

\* A list built by a comprehension, as stored values (not re-computed on access).
List(s) == SubSeq(s, 1, Len(s))

\* Lexicographic order on integer key tuples of one length (Python tuple <).
RECURSIVE KeyLess(_, _)
KeyLess(k1, k2) ==
    IF k1 = <<>> THEN FALSE
    ELSE Head(k1) < Head(k2) \/ (Head(k1) = Head(k2) /\ KeyLess(Tail(k1), Tail(k2)))

SetMax(S) == CHOOSE x \in S : \A y \in S : y <= x

\* list.sort(key=...) / a stable sort_values, on a sequence of <<key, item>> pairs:
\* an item moves behind exactly the items with a smaller key and the earlier
\* items with an equal key.
StableSort(pairs) ==
    LET n    == Len(pairs)
        ps   == List(pairs)
        keys == List([i \in 1..n |-> ps[i][1]])
        rank == List([i \in 1..n |-> 1 + Cardinality({j \in 1..n :
                          \/ KeyLess(keys[j], keys[i])
                          \/ (keys[j] = keys[i] /\ j < i)})])
    IN List([p \in 1..n |-> ps[CHOOSE i \in 1..n : rank[i] = p]])

Items(pairs) == List([i \in 1..Len(pairs) |-> pairs[i][2]])

(***************************************************************************)
(* analyzer.py: the sell tier classifier                                   *)
(***************************************************************************)
SweetSpotMin == 250000
SweetSpotMax == 5000000
MillionNote  == 1000000

TierTags == {"S1", "S2", "SELL_WATCH"}

\* SELL_TIERS: tag -> display name (the other metadata fields are constants too).
SELL_TIERS ==
    [tag \in TierTags |->
        CASE tag = "S1" -> "SELL TIER 1 - INSIDER DUMP"
          [] tag = "S2" -> "SELL TIER 2 - NOTABLE SELL"
          [] OTHER      -> "SELL WATCH"]

\* Python truthiness of a role flag read from the row (0, 1 or None).
Truthy(x) == x # 0 /\ x # NULL

\* sell.get('total_value', 0) or 0
ValueOrZero(v) == IF v = NULL \/ v = 0 THEN 0 ELSE v

\* 250_000 <= value <= 5_000_000 with the upper bound made exclusive.
in_sweet_spot_exclusive(value) == SweetSpotMin <= value /\ value < SweetSpotMax

in_sweet_spot(value) == SweetSpotMin <= value /\ value <= SweetSpotMax

\* The notes list, as the kinds of note appended, in order.
sell_notes(s) ==
    LET value == ValueOrZero(s.total_value)
        amount == IF value >= MillionNote THEN <<"amount_in_millions">>
                                          ELSE <<"amount_with_separators">>
        title  == IF s.insider_title # "" THEN <<"title">> ELSE <<>>
        big    == IF value > SweetSpotMax THEN <<"5M+ (possible 10b5-1 plan)">> ELSE <<>>
    IN amount \o title \o big

\* classify_sell(sell) -> (tier_tag, tier_info, notes)
classify_sell(s) ==
    LET is_off == Truthy(s.is_officer)
        is_dir == Truthy(s.is_director)
        value  == ValueOrZero(s.total_value)
        is_dual_role == is_off /\ is_dir
        sweet  == in_sweet_spot(value)
        notes  == sell_notes(s)
    IN IF is_dual_role /\ sweet
       THEN [tier_tag |-> "S1", tier_info |-> SELL_TIERS["S1"], notes |-> notes]
       ELSE IF (is_off \/ is_dir) /\ sweet
       THEN [tier_tag |-> "S2", tier_info |-> SELL_TIERS["S2"], notes |-> notes]
       ELSE IF is_off \/ is_dir
       THEN [tier_tag |-> "SELL_WATCH", tier_info |-> SELL_TIERS["SELL_WATCH"],
             notes |-> IF value > SweetSpotMax
                       THEN notes \o <<"weaker signal at $5M+">> ELSE notes]
       ELSE [tier_tag |-> "SELL_WATCH", tier_info |-> SELL_TIERS["SELL_WATCH"],
             notes |-> notes \o <<"non-officer/director">>]

\* The priority table with every tier at 0, so that the sorts order by value alone.
tier_priority_flat(tag) == 0

\* tier_priority = {'S1': 0, 'S2': 1, 'SELL_WATCH': 2}; .get(t, 99)
tier_priority(tag) ==
    CASE tag = "S1" -> 0 [] tag = "S2" -> 1 [] tag = "SELL_WATCH" -> 2 [] OTHER -> 99

\* min(tags, key=priority) with the comparison reversed: picks the weakest tier.
best_tag_weakest(tags) ==
    CHOOSE t \in SeqToSet(tags) :
        \A u \in SeqToSet(tags) : tier_priority(t) >= tier_priority(u)

\* min([s['tier_tag'] for s in sells], key=lambda t: tier_priority.get(t, 99))
best_tag(tags) ==
    CHOOSE t \in SeqToSet(tags) :
        \A u \in SeqToSet(tags) : tier_priority(t) <= tier_priority(u)

\* The sell dict after find_sell_signals annotated it with its classification.
AnnotateSell(s) ==
    LET c == classify_sell(s)
    IN [ticker |-> s.ticker, company_name |-> s.company_name,
        insider_name |-> s.insider_name, insider_title |-> s.insider_title,
        is_officer |-> s.is_officer, is_director |-> s.is_director,
        total_value |-> s.total_value,
        tier_tag |-> c.tier_tag, tier_info |-> c.tier_info, notes |-> c.notes]

\* Keys of by_ticker in dict insertion order: tickers by first occurrence.
RECURSIVE TickerOrder(_, _)
TickerOrder(rows, seen) ==
    IF rows = <<>> THEN <<>>
    ELSE IF Head(rows).ticker \in seen
         THEN TickerOrder(Tail(rows), seen)
         ELSE <<Head(rows).ticker>> \o TickerOrder(Tail(rows), seen \cup {Head(rows).ticker})

\* by_ticker[ticker] once the grouping loop and the per-ticker loop are done.
TickerSignal(rows, ticker) ==
    LET mine   == SelectSeq(rows, LAMBDA r : r.ticker = ticker)
        sells  == List([i \in 1..Len(mine) |-> AnnotateSell(mine[i])])
        tags   == List([i \in 1..Len(sells) |-> sells[i].tier_tag])
        best   == best_tag(tags)
        keyed  == [i \in 1..Len(sells) |->
                     <<<<tier_priority(sells[i].tier_tag),
                         0 - ValueOrZero(sells[i].total_value)>>, sells[i]>>]
    IN [ticker |-> ticker,
        company_name |-> mine[1].company_name,
        sells |-> Items(StableSort(keyed)),
        total_value |-> SumSeq([i \in 1..Len(mine) |-> ValueOrZero(mine[i].total_value)]),
        tier_tag |-> best,
        tier_info |-> SELL_TIERS[best],
        num_sellers |-> Cardinality({mine[i].insider_name : i \in 1..Len(mine)})]

\* SellSignalAnalyzer.find_sell_signals, given what get_significant_sells returned.
find_sell_signals(rows) ==
    IF rows = <<>> THEN <<>>
    ELSE LET order   == TickerOrder(rows, {})
             results == List([i \in 1..Len(order) |-> TickerSignal(rows, order[i])])
             keyed   == [i \in 1..Len(results) |->
                           <<<<tier_priority(results[i].tier_tag),
                               0 - results[i].total_value>>, results[i]>>]
         IN Items(StableSort(keyed))


(***************************************************************************)
(* insider_cluster_backtest.py: detect_clusters                            *)
(***************************************************************************)
DedupGapDays == 7

Tickers == {"AAA", "BBB"}

\* Alphabetical position of a ticker symbol (string order in sort_values).
TickerRank(ticker) == IF ticker = "AAA" THEN 1 ELSE 2

\* purchases['TICKER'].unique(): distinct tickers in order of appearance.
UniqueTickers(P) == TickerOrder([i \in 1..Len(P) |-> [ticker |-> P[i].TICKER]], {})

\* The per-ticker frame left in input order (sort_values('TRANS_DATE') dropped).
TickerBuys_unsorted(P, ticker) == SelectSeq(P, LAMBDA r : r.TICKER = ticker)

\* purchases[purchases['TICKER'] == ticker].sort_values('TRANS_DATE')
TickerBuys(P, ticker) ==
    LET mine  == SelectSeq(P, LAMBDA r : r.TICKER = ticker)
        keyed == [i \in 1..Len(mine) |-> <<<<mine[i].TRANS_DATE>>, mine[i]>>]
    IN Items(StableSort(keyed))

\* The window mask with the far end left out (TRANS_DATE < window_end).
InWindowOpen(row, window_start, w) ==
    row.TRANS_DATE >= window_start /\ row.TRANS_DATE < window_start + w

\* The window mask with no far end (TRANS_DATE >= window_start only).
InWindow_unbounded(row, window_start, w) == row.TRANS_DATE >= window_start

\* window_mask: window_start <= TRANS_DATE <= window_start + timedelta(days=window_days)
InWindow(row, window_start, w) ==
    row.TRANS_DATE >= window_start /\ row.TRANS_DATE <= window_start + w

\* The threshold test with >= mistyped as ==.
MeetsThreshold_exact(unique_insiders, m) == unique_insiders = m

\* if unique_insiders >= min_insiders
MeetsThreshold(unique_insiders, m) == unique_insiders >= m

\* The candidate dict appended for window idx of one ticker, or <<>> when the
\* distinct-insider count is below min_insiders.
WindowCandidate(tb, idx, ticker, w, m) ==
    LET window_start == tb[idx].TRANS_DATE
        window_buys  == SelectSeq(tb, LAMBDA r : InWindow(r, window_start, w))
        unique_insiders == Cardinality({window_buys[i].RPTOWNERNAME : i \in 1..Len(window_buys)})
        last_buy_date == SetMax({window_buys[i].TRANS_DATE : i \in 1..Len(window_buys)})
        roles   == {window_buys[i].ROLE : i \in 1..Len(window_buys)}
        has_ceo == "CEO" \in roles
        has_cfo == "CFO" \in roles
    IN IF MeetsThreshold(unique_insiders, m)
       THEN <<[ticker |-> ticker,
               company |-> window_buys[1].ISSUERNAME,
               cluster_start |-> window_start,
               cluster_end |-> last_buy_date,
               signal_date |-> last_buy_date,
               num_insiders |-> unique_insiders,
               num_transactions |-> Len(window_buys),
               total_shares |-> SumSeq([i \in 1..Len(window_buys) |-> window_buys[i].TRANS_SHARES]),
               total_dollars |-> SumSeq([i \in 1..Len(window_buys) |-> window_buys[i].DOLLAR_VALUE]),
               roles |-> roles,
               has_csuite |-> has_ceo \/ has_cfo \/ "COO" \in roles \/ "President" \in roles,
               has_ceo |-> has_ceo,
               has_cfo |-> has_cfo]>>
       ELSE <<>>

RECURSIVE WindowLoop(_, _, _, _, _)
WindowLoop(tb, idx, ticker, w, m) ==
    IF idx > Len(tb) THEN <<>>
    ELSE WindowCandidate(tb, idx, ticker, w, m) \o WindowLoop(tb, idx + 1, ticker, w, m)

\* The body of the ticker loop: the candidates one ticker contributes.
TickerCandidates(P, ticker, w, m) ==
    LET tb == TickerBuys(P, ticker)
    IN IF Len(tb) < m THEN <<>> ELSE WindowLoop(tb, 1, ticker, w, m)

RECURSIVE TickerLoop(_, _, _, _)
TickerLoop(P, tickers, w, m) ==
    IF tickers = <<>> THEN <<>>
    ELSE TickerCandidates(P, Head(tickers), w, m) \o TickerLoop(P, Tail(tickers), w, m)

\* The clusters list before deduplication (lines 285-352).
Candidates(P, w, m) == TickerLoop(P, UniqueTickers(P), w, m)

\* clusters_df.sort_values(['ticker','signal_date','num_insiders'], ascending=[True,True,False])
SortCandidates(cands) ==
    Items(StableSort([i \in 1..Len(cands) |->
        <<<<TickerRank(cands[i].ticker), cands[i].signal_date, 0 - cands[i].num_insiders>>,
          cands[i]>>]))

\* The dedup walk keeping a candidate already at a gap of 7 days (>= 7).
RECURSIVE DedupWalk_inclusive(_, _)
DedupWalk_inclusive(rows, last) ==
    IF rows = <<>> THEN <<>>
    ELSE LET row == Head(rows)
         IN IF last = <<>> \/ last[1] # row.ticker
               \/ row.signal_date - last[2] >= DedupGapDays
            THEN <<row>> \o DedupWalk_inclusive(Tail(rows), <<row.ticker, row.signal_date>>)
            ELSE DedupWalk_inclusive(Tail(rows), last)

\* The dedup walk (lines 368-378); last is <<>> (None) or <<last_ticker, last_date>>.
RECURSIVE DedupWalk(_, _)
DedupWalk(rows, last) ==
    IF rows = <<>> THEN <<>>
    ELSE LET row == Head(rows)
         IN IF last = <<>> \/ last[1] # row.ticker
               \/ row.signal_date - last[2] > DedupGapDays
            THEN <<row>> \o DedupWalk(Tail(rows), <<row.ticker, row.signal_date>>)
            ELSE DedupWalk(Tail(rows), last)

\* detect_clusters(purchases, window_days, min_insiders) -> clusters_df rows
detect_clusters(P, w, m) ==
    LET cands == Candidates(P, w, m)
    IN IF cands = <<>> THEN <<>> ELSE DedupWalk(SortCandidates(cands), <<>>)


(***************************************************************************)
(* database.py: the tables and the queries over them                       *)
(***************************************************************************)
\* A row of form4_transactions as insert_transaction stores it.
TxnRow(acc, ticker, cik, name, title, dir, off, ten, date, code, ad, value) ==
    [accession_number |-> acc, issuer_ticker |-> ticker, issuer_name |-> ticker,
     insider_cik |-> cik, insider_name |-> name, insider_title |-> title,
     is_director |-> dir, is_officer |-> off, is_ten_percent_owner |-> ten,
     transaction_date |-> date, transaction_code |-> code,
     acquired_disposed |-> ad, total_value |-> value]

\* insert_transaction: a plain INSERT; the table has no UNIQUE constraint, so
\* sqlite3.IntegrityError is never raised and every call appends a row.
insert_transaction(table, t) == Append(table, t)

\* mark_filing_processed: INSERT OR REPLACE INTO processed_filings
mark_filing_processed(tbl, accession, status) == [tbl EXCEPT ![accession] = status]

\* is_filing_processed counting only filings marked 'success' (AND status = 'success').
is_filing_processed_success_only(tbl, accession) == tbl[accession] = "success"

\* is_filing_processed: SELECT 1 FROM processed_filings WHERE accession_number = ?
is_filing_processed(tbl, accession) == tbl[accession] # "none"

\* was_alert_sent with the alert_date condition left out of the WHERE clause.
was_alert_sent_any_date(tbl, alert_type, ticker, alert_date) ==
    \E i \in 1..Len(tbl) :
        /\ tbl[i].alert_type = alert_type
        /\ tbl[i].issuer_ticker = ticker

\* was_alert_sent: SELECT 1 FROM sent_alerts WHERE alert_type=? AND issuer_ticker=? AND alert_date=?
was_alert_sent(tbl, alert_type, ticker, alert_date) ==
    \E i \in 1..Len(tbl) :
        /\ tbl[i].alert_type = alert_type
        /\ tbl[i].issuer_ticker = ticker
        /\ tbl[i].alert_date = alert_date

AlertRow(alert_type, ticker, alert_date, details) ==
    [alert_type |-> alert_type, issuer_ticker |-> ticker,
     alert_date |-> alert_date, details |-> details]

\* record_alert_sent as INSERT OR REPLACE: the row of the key is rewritten.
record_alert_sent_replace(tbl, alert_type, ticker, alert_date, details) ==
    IF was_alert_sent(tbl, alert_type, ticker, alert_date)
    THEN [i \in 1..Len(tbl) |->
            IF /\ tbl[i].alert_type = alert_type
               /\ tbl[i].issuer_ticker = ticker
               /\ tbl[i].alert_date = alert_date
            THEN AlertRow(alert_type, ticker, alert_date, details)
            ELSE tbl[i]]
    ELSE Append(tbl, AlertRow(alert_type, ticker, alert_date, details))

\* record_alert_sent: INSERT; UNIQUE(alert_type, issuer_ticker, alert_date) raises
\* sqlite3.IntegrityError on a duplicate key, which is swallowed (pass).
record_alert_sent(tbl, alert_type, ticker, alert_date, details) ==
    IF was_alert_sent(tbl, alert_type, ticker, alert_date)
    THEN tbl
    ELSE Append(tbl, AlertRow(alert_type, ticker, alert_date, details))

ClusterWindowDays == 14
MinClusterSize    == 2
MinPurchaseValue  == 10000
SellLookbackDays  == 3
SellMinValue      == 50000

\* Tickers of the rows of a table, in table order without repeats.
TableTickers(rows) ==
    TickerOrder([i \in 1..Len(rows) |-> [ticker |-> rows[i].issuer_ticker]], {})

SetMin(S) == CHOOSE x \in S : \A y \in S : x <= y

\* get_recent_purchases(ticker, days): ORDER BY transaction_date DESC
get_recent_purchases(table, now, ticker, days) ==
    LET hit == SelectSeq(table, LAMBDA r :
                   /\ r.issuer_ticker = ticker
                   /\ r.transaction_code = "P"
                   /\ r.acquired_disposed = "A"
                   /\ r.transaction_date >= now - days)
    IN Items(StableSort([i \in 1..Len(hit) |-> <<<<0 - hit[i].transaction_date>>, hit[i]>>]))

\* get_cluster_candidates(min_insiders, days, min_value):
\* GROUP BY issuer_ticker HAVING COUNT(DISTINCT insider_cik) >= min_insiders
\* ORDER BY unique_insiders DESC, total_purchased DESC
get_cluster_candidates(table, now, min_ins, days, min_value) ==
    LET hit == SelectSeq(table, LAMBDA r :
                   /\ r.transaction_code = "P"
                   /\ r.acquired_disposed = "A"
                   /\ r.transaction_date >= now - days
                   /\ r.total_value # NULL
                   /\ r.total_value >= min_value
                   /\ r.issuer_ticker # "")
        groups == TableTickers(hit)
        Group(tk) ==
            LET g == SelectSeq(hit, LAMBDA r : r.issuer_ticker = tk)
            IN [ticker |-> tk,
                company_name |-> g[1].issuer_name,
                unique_insiders |-> Cardinality({g[i].insider_cik : i \in 1..Len(g)}),
                total_purchased |-> SumSeq([i \in 1..Len(g) |-> g[i].total_value]),
                first_purchase |-> SetMin({g[i].transaction_date : i \in 1..Len(g)}),
                last_purchase |-> SetMax({g[i].transaction_date : i \in 1..Len(g)})]
        all  == List([i \in 1..Len(groups) |-> Group(groups[i])])
        kept == SelectSeq(all, LAMBDA c : c.unique_insiders >= min_ins)
    IN Items(StableSort([i \in 1..Len(kept) |->
           <<<<0 - kept[i].unique_insiders, 0 - kept[i].total_purchased>>, kept[i]>>]))

\* get_significant_sells(days, min_value): ORDER BY total_value DESC
get_significant_sells(table, now, days, min_value) ==
    LET hit == SelectSeq(table, LAMBDA r :
                   /\ r.transaction_code = "S"
                   /\ r.acquired_disposed = "D"
                   /\ r.transaction_date >= now - days
                   /\ r.total_value # NULL
                   /\ r.total_value >= min_value
                   /\ r.issuer_ticker # "")
        dicts == [i \in 1..Len(hit) |->
                    [ticker |-> hit[i].issuer_ticker, company_name |-> hit[i].issuer_name,
                     insider_name |-> hit[i].insider_name,
                     insider_title |-> hit[i].insider_title,
                     is_officer |-> hit[i].is_officer, is_director |-> hit[i].is_director,
                     total_value |-> hit[i].total_value]]
    IN Items(StableSort([i \in 1..Len(dicts) |-> <<<<0 - dicts[i].total_value>>, dicts[i]>>]))


(***************************************************************************)
(* analyzer.py on top of the tables                                        *)
(***************************************************************************)
\* ClusterAnalyzer._enrich_cluster
enrich_cluster(table, now, cluster) ==
    LET ps == get_recent_purchases(table, now, cluster.ticker, ClusterWindowDays)
    IN [ticker |-> cluster.ticker,
        company_name |-> cluster.company_name,
        unique_insiders |-> Cardinality({ps[i].insider_name : i \in 1..Len(ps)}),
        total_purchased |-> SumSeq([i \in 1..Len(ps) |-> ValueOrZero(ps[i].total_value)]),
        first_purchase |-> cluster.first_purchase,
        last_purchase |-> cluster.last_purchase,
        transactions |-> ps]

\* ClusterAnalyzer.find_clusters
find_clusters(table, now) ==
    LET cs == get_cluster_candidates(table, now, MinClusterSize, ClusterWindowDays,
                                     MinPurchaseValue)
    IN List([i \in 1..Len(cs) |-> enrich_cluster(table, now, cs[i])])

\* f"sell_{tier_tag.lower()}"
SellAlertType(tag) ==
    CASE tag = "S1" -> "sell_s1" [] tag = "S2" -> "sell_s2" [] OTHER -> "sell_sell_watch"

\* SellSignalAnalyzer.find_sell_signals as main.py constructs it (lookback 3, $50K).
all_sell_signals(table, now) ==
    find_sell_signals(get_significant_sells(table, now, SellLookbackDays, SellMinValue))

\* get_new_sell_alerts without the SELL_WATCH "continue".
get_new_sell_alerts_with_watch(table, alerts, now) ==
    SelectSeq(all_sell_signals(table, now), LAMBDA s :
        ~was_alert_sent(alerts, SellAlertType(s.tier_tag), s.ticker, now))

\* SellSignalAnalyzer.get_new_sell_alerts
get_new_sell_alerts(table, alerts, now) ==
    SelectSeq(all_sell_signals(table, now), LAMBDA s :
        /\ s.tier_tag # "SELL_WATCH"
        /\ ~was_alert_sent(alerts, SellAlertType(s.tier_tag), s.ticker, now))

Details(text, n, total) == [text |-> text, n |-> n, total |-> total]

\* The record_alert_sent calls mark_sell_alerts_sent makes, in order.
SellRecords(new_alerts) ==
    List([i \in 1..Len(new_alerts) |->
        [alert_type |-> SellAlertType(new_alerts[i].tier_tag),
         ticker |-> new_alerts[i].ticker,
         details |-> Details(new_alerts[i].tier_tag, new_alerts[i].num_sellers,
                             new_alerts[i].total_value)]])

(***************************************************************************)
(* main.py: one scan, step by step                                         *)
(***************************************************************************)
MaxDay    == 12      \* last calendar day of the model (days start at 10)
MaxRuns   == 2       \* program runs started (main.py and cross_signal_scanner.py)
MaxFaults == 1       \* interrupts, fetch failures and SMTP failures

Days == 10..MaxDay

\* The weekend guard testing for Sunday only (weekday() >= 6).
Weekend_sunday_only(day) == (day % 7) >= 6

\* datetime.now(timezone.utc).weekday() >= 5, with day 10 a Thursday
Weekend(day) == (day % 7) >= 5

\* What parser.parse returns for the filings EDGAR's feed lists, newest first.
FeedUniverse ==
    << [accession_number |-> "acc1", cik |-> "c1", transactions |->
          << TxnRow("acc1", "AAA", "i1", "Ann", "CEO", 0, 1, 0, 9, "P", "A", 600000) >>],
       [accession_number |-> "acc2", cik |-> "c1", transactions |->
          << TxnRow("acc2", "AAA", "i2", "Bob", "", 1, 0, 0, 10, "P", "A", 20000) >>],
       [accession_number |-> "acc3", cik |-> "c2", transactions |->
          << TxnRow("acc3", "BBB", "i3", "Cy", "CFO", 1, 1, 0, 10, "S", "D", 1000000),
             TxnRow("acc3", "BBB", "i3", "Cy", "CFO", 1, 1, 0, 10, "S", "D", 6000000) >>],
       [accession_number |-> "acc4", cik |-> "c3", transactions |->
          << TxnRow("acc4", "CCC", "i4", "Di", "", 0, 0, 1, 10, "S", "D", 1000000) >>],
       [accession_number |-> "acc5", cik |-> "c1", transactions |->
          << TxnRow("acc5", "AAA", "i1", "Ann", "CEO", 0, 1, 0, 10, "S", "D", 300000) >>] >>

Accessions == {FeedUniverse[i].accession_number : i \in 1..Len(FeedUniverse)}

Flags == [dry_run : BOOLEAN, fetch_only : BOOLEAN, analyze_only : BOOLEAN,
          status_only : BOOLEAN]

NoFlags == [dry_run |-> FALSE, fetch_only |-> FALSE, analyze_only |-> FALSE,
            status_only |-> FALSE]

\* Locals of a run: the feed still to walk, the filing being stored, the
\* record_alert_sent calls still to make after an email went out, and today.
NoScan == [filings |-> <<>>, accession |-> "", txns |-> <<>>, to_record |-> <<>>,
           today |-> 0]

\* The status-report test with fetch_only left out.
RunsStatus_despite_fetch_only(a) == ~a.analyze_only

\* The four stage tests of main(), lines 316, 321, 326 and 331
RunsFetch(a)    == ~a.analyze_only /\ ~a.status_only
RunsAnalysis(a) == ~a.fetch_only /\ ~a.status_only
RunsStatus(a)   == ~a.fetch_only /\ ~a.analyze_only

Email(kind, day, keys) == [kind |-> kind, day |-> day, keys |-> keys]

\* main(): weekend guard, argument parsing, initialize_database
StartScan(a) ==
    /\ pc = "idle"
    /\ runs_started < MaxRuns
    /\ runs_started' = runs_started + 1
    /\ weekend_skips' = IF Weekend(clock) THEN weekend_skips + 1 ELSE weekend_skips
    /\ IF Weekend(clock)
       THEN pc' = "idle" /\ scan' = NoScan /\ args' = NoFlags
       ELSE /\ pc' = "fetch"
            /\ args' = a
            /\ scan' = [NoScan EXCEPT !.filings = IF RunsFetch(a) THEN FeedUniverse ELSE <<>>,
                                      !.today = clock]
    /\ UNCHANGED <<otherVars, clock, transactions, processed, sent_alerts, outbox, cross_log,
                   faults, lost_records>>

\* fetch_and_store_filings: one pass of the loop up to the XML fetch
FetchFiling ==
    /\ pc = "fetch"
    /\ scan.filings # <<>>
    /\ LET f == Head(scan.filings) IN
       IF f.accession_number = "" \/ is_filing_processed(processed, f.accession_number)
       THEN /\ scan' = [scan EXCEPT !.filings = Tail(scan.filings)]
            /\ UNCHANGED <<pc, processed>>
       ELSE IF f.cik = ""
       THEN /\ processed' = mark_filing_processed(processed, f.accession_number, "error")
            /\ scan' = [scan EXCEPT !.filings = Tail(scan.filings)]
            /\ UNCHANGED pc
       ELSE /\ pc' = "store"
            /\ scan' = [scan EXCEPT !.accession = f.accession_number,
                                    !.txns = f.transactions]
            /\ UNCHANGED processed
    /\ UNCHANGED <<otherVars, clock, transactions, sent_alerts, outbox, cross_log, args,
                   runs_started, faults, lost_records,
                   weekend_skips>>

\* fetch_form4_xml returned nothing: mark 'error' and go on with the next filing
FetchXmlFails ==
    /\ pc = "fetch"
    /\ scan.filings # <<>>
    /\ faults < MaxFaults
    /\ LET f == Head(scan.filings) IN
       /\ f.accession_number # ""
       /\ ~is_filing_processed(processed, f.accession_number)
       /\ f.cik # ""
       /\ processed' = mark_filing_processed(processed, f.accession_number, "error")
    /\ scan' = [scan EXCEPT !.filings = Tail(scan.filings)]
    /\ faults' = faults + 1
    /\ UNCHANGED <<otherVars, clock, transactions, sent_alerts, outbox, cross_log, pc, args,
                   runs_started, lost_records,
                   weekend_skips>>

\* for txn in transactions: insert_transaction(txn)
StoreTxn ==
    /\ pc = "store"
    /\ scan.txns # <<>>
    /\ transactions' = insert_transaction(transactions, Head(scan.txns))
    /\ scan' = [scan EXCEPT !.txns = Tail(scan.txns)]
    /\ UNCHANGED <<otherVars, clock, processed, sent_alerts, outbox, cross_log, pc, args,
                   runs_started, faults, lost_records,
                   weekend_skips>>

\* mark_filing_processed(accession, 'success') after the insert loop
MarkSuccess ==
    /\ pc = "store"
    /\ scan.txns = <<>>
    /\ processed' = mark_filing_processed(processed, scan.accession, "success")
    /\ scan' = [scan EXCEPT !.filings = Tail(scan.filings), !.accession = ""]
    /\ pc' = "fetch"
    /\ UNCHANGED <<otherVars, clock, transactions, sent_alerts, outbox, cross_log, args,
                   runs_started, faults, lost_records,
                   weekend_skips>>

\* The except clause placed around the whole loop: the filing is marked 'error'
\* and the rest of the feed is left unvisited.
StoreRaises_leaves_loop ==
    /\ pc = "store"
    /\ faults < MaxFaults
    /\ processed' = mark_filing_processed(processed, scan.accession, "error")
    /\ scan' = [scan EXCEPT !.filings = <<>>, !.accession = "", !.txns = <<>>]
    /\ pc' = "fetch"
    /\ faults' = faults + 1
    /\ UNCHANGED <<otherVars, clock, transactions, sent_alerts, outbox, cross_log, args,
                   runs_started, lost_records,
                   weekend_skips>>

\* except Exception: mark_filing_processed(accession, 'error', str(e))
StoreRaises ==
    /\ pc = "store"
    /\ faults < MaxFaults
    /\ processed' = mark_filing_processed(processed, scan.accession, "error")
    /\ scan' = [scan EXCEPT !.filings = Tail(scan.filings), !.accession = "",
                            !.txns = <<>>]
    /\ pc' = "fetch"
    /\ faults' = faults + 1
    /\ UNCHANGED <<otherVars, clock, transactions, sent_alerts, outbox, cross_log, args,
                   runs_started, lost_records,
                   weekend_skips>>

\* The feed is exhausted (or the fetch stage was not run): on to the buy analysis
FetchDone ==
    /\ pc = "fetch"
    /\ scan.filings = <<>>
    /\ pc' = "buy"
    /\ UNCHANGED <<otherVars, clock, transactions, processed, sent_alerts, outbox, cross_log,
                   args, scan, runs_started, faults, lost_records,
                   weekend_skips>>


\* analyze_and_alert without the was_alert_sent test of line 180.
new_clusters_unchecked(table, alerts, today) == find_clusters(table, today)

\* analyze_and_alert, lines 177-186: the clusters not yet alerted on today
new_clusters(table, alerts, today) ==
    SelectSeq(find_clusters(table, today), LAMBDA c :
        ~was_alert_sent(alerts, "cluster", c.ticker, today))

\* The record_alert_sent calls of lines 203-205, in order.
ClusterRecords(new) ==
    List([i \in 1..Len(new) |->
        [alert_type |-> "cluster", ticker |-> new[i].ticker,
         details |-> Details("insiders", new[i].unique_insiders, 0)]])

\* The "if new: if dry_run: ... else: send" decision with the dry_run test dropped.
SendsAlert_ignoring_dry_run(a, new) == new # <<>>

\* Lines 192-202 and 235-242: an alert email is attempted iff there is something
\* new and the run is not a dry run.
SendsAlert(a, new) == new # <<>> /\ ~a.dry_run

\* analyze_and_alert up to and including reporter.send_cluster_alert returning True.
\* (check_cluster_contamination only decorates the clusters for rendering.)
AnalyzeBuys ==
    /\ pc = "buy"
    /\ LET new == IF RunsAnalysis(args)
                  THEN new_clusters(transactions, sent_alerts, scan.today) ELSE <<>>
           recs == ClusterRecords(new)
       IN IF SendsAlert(args, new)
          THEN /\ outbox' = Append(outbox, Email("cluster", clock,
                                {<<recs[i].alert_type, recs[i].ticker>> : i \in 1..Len(recs)}))
               /\ scan' = [scan EXCEPT !.to_record = recs]
               /\ pc' = "buy_record"
          ELSE /\ pc' = "sell"
               /\ UNCHANGED <<outbox, scan>>
    /\ UNCHANGED <<otherVars, clock, transactions, processed, sent_alerts, cross_log, args,
                   runs_started, faults, lost_records,
                   weekend_skips>>

\* The record loop run whatever send_cluster_alert returned.
BuySendFails_still_records ==
    /\ pc = "buy"
    /\ faults < MaxFaults
    /\ RunsAnalysis(args)
    /\ SendsAlert(args, new_clusters(transactions, sent_alerts, scan.today))
    /\ faults' = faults + 1
    /\ scan' = [scan EXCEPT !.to_record =
                    ClusterRecords(new_clusters(transactions, sent_alerts, scan.today))]
    /\ pc' = "buy_record"
    /\ UNCHANGED <<otherVars, clock, transactions, processed, sent_alerts, outbox, cross_log,
                   args, runs_started, lost_records,
                   weekend_skips>>

\* reporter.send_cluster_alert returned False (SMTP error): nothing is recorded
BuySendFails ==
    /\ pc = "buy"
    /\ faults < MaxFaults
    /\ RunsAnalysis(args)
    /\ SendsAlert(args, new_clusters(transactions, sent_alerts, scan.today))
    /\ faults' = faults + 1
    /\ pc' = "sell"
    /\ UNCHANGED <<otherVars, clock, transactions, processed, sent_alerts, outbox, cross_log,
                   args, scan, runs_started, lost_records,
                   weekend_skips>>

\* One record_alert_sent call of the loop after a successful send
\* (main.py 203-205 for clusters, mark_sell_alerts_sent for sells).
RecordAlert ==
    /\ pc \in {"buy_record", "sell_record"}
    /\ scan.to_record # <<>>
    /\ LET r == Head(scan.to_record) IN
       sent_alerts' = record_alert_sent(sent_alerts, r.alert_type, r.ticker,
                                        scan.today, r.details)
    /\ scan' = [scan EXCEPT !.to_record = Tail(scan.to_record)]
    /\ pc' = IF Tail(scan.to_record) # <<>> THEN pc
             ELSE IF pc = "buy_record" THEN "sell" ELSE "status"
    /\ UNCHANGED <<otherVars, clock, transactions, processed, outbox, cross_log, args,
                   runs_started, faults, lost_records,
                   weekend_skips>>

\* analyze_sells_and_alert up to and including reporter.send_sell_alert returning True
AnalyzeSells ==
    /\ pc = "sell"
    /\ LET new == IF RunsAnalysis(args)
                  THEN get_new_sell_alerts(transactions, sent_alerts, clock) ELSE <<>>
           recs == SellRecords(new)
       IN IF SendsAlert(args, new)
          THEN /\ outbox' = Append(outbox, Email("sell", clock,
                                {<<recs[i].alert_type, recs[i].ticker>> : i \in 1..Len(recs)}))
               /\ scan' = [scan EXCEPT !.to_record = recs]
               /\ pc' = "sell_record"
          ELSE /\ pc' = "status"
               /\ UNCHANGED <<outbox, scan>>
    /\ UNCHANGED <<otherVars, clock, transactions, processed, sent_alerts, cross_log, args,
                   runs_started, faults, lost_records,
                   weekend_skips>>

\* reporter.send_sell_alert returned False: mark_sell_alerts_sent is not called
SellSendFails ==
    /\ pc = "sell"
    /\ faults < MaxFaults
    /\ RunsAnalysis(args)
    /\ SendsAlert(args, get_new_sell_alerts(transactions, sent_alerts, clock))
    /\ faults' = faults + 1
    /\ pc' = "status"
    /\ UNCHANGED <<otherVars, clock, transactions, processed, sent_alerts, outbox, cross_log,
                   args, scan, runs_started, lost_records,
                   weekend_skips>>

\* send_status_report and the end of main(); a failed status send changes nothing
StatusReport ==
    /\ pc = "status"
    /\ \E delivered \in BOOLEAN :
        /\ delivered => RunsStatus(args) /\ ~args.dry_run
        /\ ~delivered => (faults < MaxFaults \/ ~RunsStatus(args) \/ args.dry_run)
        /\ outbox' = IF delivered THEN Append(outbox, Email("status", clock, {}))
                     ELSE outbox
        /\ faults' = IF ~delivered /\ RunsStatus(args) /\ ~args.dry_run
                     THEN faults + 1 ELSE faults
    /\ pc' = "idle"
    /\ scan' = NoScan
    /\ args' = NoFlags
    /\ UNCHANGED <<otherVars, clock, transactions, processed, sent_alerts, cross_log,
                   runs_started, lost_records,
                   weekend_skips>>

\* The keys a run has emailed but not yet recorded.
Pending == List([i \in 1..Len(scan.to_record) |->
               <<scan.to_record[i].alert_type, scan.to_record[i].ticker, scan.today>>])

\* The process is killed between two steps; its local variables are lost.
Interrupt ==
    /\ pc \notin {"idle", "cross"}
    /\ faults < MaxFaults
    /\ faults' = faults + 1
    /\ lost_records' = lost_records \o Pending
    /\ pc' = "idle"
    /\ scan' = NoScan
    /\ args' = NoFlags
    /\ UNCHANGED <<otherVars, clock, transactions, processed, sent_alerts, outbox, cross_log,
                   runs_started,
                   weekend_skips>>

\* Midnight passes while no run is in progress (and another run is to come).
Tick ==
    /\ pc = "idle"
    /\ runs_started < MaxRuns
    /\ clock < MaxDay
    /\ clock' = clock + 1
    /\ UNCHANGED <<otherVars, transactions, processed, sent_alerts, outbox, cross_log, pc, args,
                   scan, runs_started, faults, lost_records,
                   weekend_skips>>

(***************************************************************************)
(* analyzer.py: ClusterAnalyzer buy score and get_new_alerts               *)
(***************************************************************************)
\* A 'YYYY-MM-DD' column value: a date (its day number), Python None, the empty
\* string, or text strptime rejects
DateText(day) == [text |-> "date", day |-> day]
NoDate        == [text |-> "none", day |-> 0]
EmptyDate     == [text |-> "empty", day |-> 0]
BadDate       == [text |-> "garbage", day |-> 0]

\* math.log10 on the powers of ten below 100000, where it is exact
Log10(v) ==
    CASE v = 1 -> 0 [] v = 10 -> 1 [] v = 100 -> 2 [] v = 1000 -> 3 [] v = 10000 -> 4

\* min(50, math.log10(total_purchased) * 10) when total_purchased > 0
ValuePoints(total) ==
    IF total > 0
    THEN (IF total >= 100000 THEN 50 ELSE Log10(total) * 10)
    ELSE 0

\* The recency test with < in place of <=.
RecencyBonus_strict(last_purchase, now) ==
    IF last_purchase.text = "date"
    THEN (IF now - last_purchase.day < 3 THEN 20
          ELSE IF now - last_purchase.day < 7 THEN 10 ELSE 0)
    ELSE 0

\* if cluster['last_purchase']: try: strptime ... days_ago <= 3 / <= 7; except: pass
RecencyBonus(last_purchase, now) ==
    IF last_purchase.text \in {"none", "empty"} THEN 0
    ELSE IF last_purchase.text # "date" THEN 0
    ELSE LET days_ago == now - last_purchase.day
         IN IF days_ago <= 3 THEN 20
            ELSE IF days_ago <= 7 THEN 10 ELSE 0

\* ClusterAnalyzer._calculate_signal_score
calculate_signal_score(cluster, now) ==
    cluster.unique_insiders * 25
    + ValuePoints(cluster.total_purchased)
    + RecencyBonus(cluster.last_purchase, now)


\* new_alerts.sort(...) in ascending score order (reverse=True dropped).
SortAlerts_ascending(scored) ==
    Items(StableSort([i \in 1..Len(scored) |-> <<<<scored[i].signal_score>>, scored[i]>>]))

\* new_alerts.sort(key=lambda x: x['signal_score'], reverse=True)
SortAlerts(scored) ==
    Items(StableSort([i \in 1..Len(scored) |-> <<<<0 - scored[i].signal_score>>, scored[i]>>]))

\* ClusterAnalyzer.get_new_alerts
get_new_alerts(table, alerts, now) ==
    LET clusters == find_clusters(table, now)
        fresh    == SelectSeq(clusters, LAMBDA c :
                        ~was_alert_sent(alerts, "cluster", c.ticker, now))
        scored   == List([i \in 1..Len(fresh) |->
                        [ticker |-> fresh[i].ticker,
                         company_name |-> fresh[i].company_name,
                         unique_insiders |-> fresh[i].unique_insiders,
                         total_purchased |-> fresh[i].total_purchased,
                         first_purchase |-> fresh[i].first_purchase,
                         last_purchase |-> fresh[i].last_purchase,
                         transactions |-> fresh[i].transactions,
                         signal_score |->
                             calculate_signal_score(
                                 [unique_insiders |-> fresh[i].unique_insiders,
                                  total_purchased |-> fresh[i].total_purchased,
                                  last_purchase |-> DateText(fresh[i].last_purchase)],
                                 now)]])
    IN SortAlerts(scored)

(***************************************************************************)
(* cross_signal_scanner.py: main                                           *)
(***************************************************************************)
CrossLookbackDays == 3
MinTier2Value     == 500000

\* CSUITE_KEYWORDS, each keyword as its characters
CSUITE_KEYWORDS ==
    <<<<"C", "E", "O">>,
      <<"C", "F", "O">>,
      <<"C", "O", "O">>,
      <<"C", "T", "O">>,
      <<"C", "I", "O">>,
      <<"C", "M", "O">>,
      <<"P", "r", "e", "s", "i", "d", "e", "n", "t">>,
      <<"C", "h", "i", "e", "f">>>>

\* The characters of the officer titles that occur in the model's filings
TitleChars(title) ==
    CASE title = "CEO" -> <<"C", "E", "O">>
      [] title = "CFO" -> <<"C", "F", "O">>
      [] title = "Chief Financial Officer" -> <<"C", "h", "i", "e", "f", " ", "F", "i", "n", "a", "n", "c", "i", "a", "l", " ", "O", "f", "f", "i", "c", "e", "r">>
      [] title = "President" -> <<"P", "r", "e", "s", "i", "d", "e", "n", "t">>
      [] title = "Vice President" -> <<"V", "i", "c", "e", " ", "P", "r", "e", "s", "i", "d", "e", "n", "t">>
      [] title = "Managing Director" -> <<"M", "a", "n", "a", "g", "i", "n", "g", " ", "D", "i", "r", "e", "c", "t", "o", "r">>
      [] title = "General Counsel" -> <<"G", "e", "n", "e", "r", "a", "l", " ", "C", "o", "u", "n", "s", "e", "l">>

UpperLetters == <<"A", "B", "C", "D", "E", "F", "G", "H", "I", "J", "K", "L", "M", "N", "O", "P", "Q", "R", "S", "T", "U", "V", "W", "X", "Y", "Z">>
LowerLetters == <<"a", "b", "c", "d", "e", "f", "g", "h", "i", "j", "k", "l", "m", "n", "o", "p", "q", "r", "s", "t", "u", "v", "w", "x", "y", "z">>

\* str.lower() on one character and on a string
LowerChar(c) ==
    IF \E i \in 1..26 : UpperLetters[i] = c
    THEN LowerLetters[CHOOSE i \in 1..26 : UpperLetters[i] = c]
    ELSE c
Lower(s) == List([i \in 1..Len(s) |-> LowerChar(s[i])])

\* kw in s: kw occurs in s as a substring
Contains(kw, s) ==
    \E i \in 1..(Len(s) - Len(kw) + 1) : SubSeq(s, i, i + Len(kw) - 1) = kw

\* is_csuite(title): False for None and '', else some CSUITE_KEYWORDS entry,
\* lower-cased, occurs in the lower-cased title
is_csuite(title) ==
    IF title = None \/ title = "" THEN FALSE
    ELSE LET title_lower == Lower(TitleChars(title))
         IN \E k \in 1..Len(CSUITE_KEYWORDS) : Contains(Lower(CSUITE_KEYWORDS[k]), title_lower)

\* cross_signal_scanner.get_recent_purchases(days_back=3)
cross_recent_purchases(table, now) ==
    SelectSeq(table, LAMBDA r :
        r.transaction_code = "P" /\ r.transaction_date >= now - CrossLookbackDays)

\* filter_tier2
filter_tier2(ps) ==
    SelectSeq(ps, LAMBDA r :
        is_csuite(r.insider_title) /\ ValueOrZero(r.total_value) >= MinTier2Value)

\* main(): weekend guard and argument parsing of the cross-signal scanner
StartCross(dry) ==
    /\ pc = "idle"
    /\ runs_started < MaxRuns
    /\ runs_started' = runs_started + 1
    /\ weekend_skips' = IF Weekend(clock) THEN weekend_skips + 1 ELSE weekend_skips
    /\ IF Weekend(clock)
       THEN pc' = "idle" /\ args' = NoFlags
       ELSE pc' = "cross" /\ args' = [NoFlags EXCEPT !.dry_run = dry]
    /\ UNCHANGED <<otherVars, clock, transactions, processed, sent_alerts, outbox, cross_log,
                   scan, faults, lost_records>>

\* main() steps 1-7: query, Tier2 filter, enrichment, log_signals, send_email
CrossRun ==
    /\ pc = "cross"
    /\ LET tier2 == filter_tier2(cross_recent_purchases(transactions, clock)) IN
       /\ cross_log' = cross_log + Len(tier2)
       /\ \E delivered \in BOOLEAN :
            /\ delivered => ~args.dry_run
            /\ ~delivered => (args.dry_run \/ faults < MaxFaults)
            /\ outbox' = IF delivered THEN Append(outbox, Email("cross", clock, {}))
                         ELSE outbox
            /\ faults' = IF ~delivered /\ ~args.dry_run THEN faults + 1 ELSE faults
    /\ pc' = "idle"
    /\ args' = NoFlags
    /\ UNCHANGED <<otherVars, clock, transactions, processed, sent_alerts, scan,
                   runs_started, lost_records,
                   weekend_skips>>


(***************************************************************************)
(* cross_signal_scanner.py: short interest, classification, contamination  *)
(***************************************************************************)
DTC_THRESHOLD       == 5
SI_CHANGE_THRESHOLD == 10
SI_SURGE_THRESHOLD  == 25

\* Truthiness of an error field: None and '' are falsy
ErrTruthy(e) == e # None /\ e # ""

SIRecord(dtc, short, prior, chg, err) ==
    [days_to_cover |-> dtc, shares_short |-> short, shares_short_prior |-> prior,
     si_change_pct |-> chg, error |-> err]

\* The dict si_data holds when fetch_short_interest returned {}
NoSIData == [tk \in {} |-> SIRecord(0, 0, 0, 0, None)]

\* What yf.Ticker(ticker).info gives: it raises (str(e) = message), or a dict
Info(raises, message, ratio, short, prior) ==
    [raises |-> raises, message |-> message, shortRatio |-> ratio,
     sharesShort |-> short, sharesShortPriorMonth |-> prior]

\* fetch_short_interest, body of the loop over unique_tickers
fetch_one(info) ==
    IF info.raises
    THEN SIRecord(0, 0, 0, 0, info.message)
    ELSE LET shares_short       == ValueOrZero(info.sharesShort)
             shares_short_prior == ValueOrZero(info.sharesShortPriorMonth)
             days_to_cover      == ValueOrZero(info.shortRatio)
             si_change_pct      == IF shares_short_prior > 0
                                   THEN ((shares_short - shares_short_prior) * 100)
                                            \div shares_short_prior
                                   ELSE 0
         IN SIRecord(days_to_cover, shares_short, shares_short_prior, si_change_pct, None)

\* fetch_short_interest(tickers): {} when yfinance cannot be imported
fetch_short_interest(tickers, yfinance_installed, info) ==
    IF ~yfinance_installed
    THEN NoSIData
    ELSE [tk \in tickers |-> fetch_one(info[tk])]

\* si = si_data.get(ticker, {}) read through si.get(key, 0) / si.get('error')
SiGet(data, ticker) ==
    IF ticker \in DOMAIN data THEN data[ticker] ELSE SIRecord(0, 0, 0, 0, None)

\* The tier decision with the thresholds compared by >= instead of >.
signal_tier_inclusive(si) ==
    IF ErrTruthy(si.error)
    THEN [tier |-> "UNVERIFIED", tier_num |-> 3]
    ELSE IF si.days_to_cover >= DTC_THRESHOLD /\ si.si_change_pct >= SI_SURGE_THRESHOLD
         THEN [tier |-> "TIER 1", tier_num |-> 0]
    ELSE IF si.days_to_cover >= DTC_THRESHOLD /\ si.si_change_pct >= SI_CHANGE_THRESHOLD
         THEN [tier |-> "TIER 2", tier_num |-> 1]
    ELSE IF si.days_to_cover >= DTC_THRESHOLD
         THEN [tier |-> "TIER 3", tier_num |-> 2]
    ELSE [tier |-> "TIER 4", tier_num |-> 4]

\* The tier decision with a failed lookup ranked among the confirmed tiers.
signal_tier_error_confirmed(si) ==
    IF ErrTruthy(si.error)
    THEN [tier |-> "UNVERIFIED", tier_num |-> 2]
    ELSE IF si.days_to_cover > DTC_THRESHOLD /\ si.si_change_pct > SI_SURGE_THRESHOLD
         THEN [tier |-> "TIER 1", tier_num |-> 0]
    ELSE IF si.days_to_cover > DTC_THRESHOLD /\ si.si_change_pct > SI_CHANGE_THRESHOLD
         THEN [tier |-> "TIER 2", tier_num |-> 1]
    ELSE IF si.days_to_cover > DTC_THRESHOLD
         THEN [tier |-> "TIER 3", tier_num |-> 2]
    ELSE [tier |-> "TIER 4", tier_num |-> 4]

\* classify_signals, lines 349-367: tier and tier_num of one purchase
signal_tier(si) ==
    IF ErrTruthy(si.error)
    THEN [tier |-> "UNVERIFIED", tier_num |-> 3]
    ELSE IF si.days_to_cover > DTC_THRESHOLD /\ si.si_change_pct > SI_SURGE_THRESHOLD
         THEN [tier |-> "TIER 1", tier_num |-> 0]
    ELSE IF si.days_to_cover > DTC_THRESHOLD /\ si.si_change_pct > SI_CHANGE_THRESHOLD
         THEN [tier |-> "TIER 2", tier_num |-> 1]
    ELSE IF si.days_to_cover > DTC_THRESHOLD
         THEN [tier |-> "TIER 3", tier_num |-> 2]
    ELSE [tier |-> "TIER 4", tier_num |-> 4]

\* The signal dict with the tier lowered one step in an UNFAVORABLE regime.
SignalOf_macro_downgrade(p, si, macro_regime) ==
    LET t == signal_tier(si)
    IN [ticker |-> p.ticker, insider_name |-> p.insider_name,
        total_value |-> p.total_value,
        days_to_cover |-> si.days_to_cover, si_change_pct |-> si.si_change_pct,
        si_error |-> si.error,
        tier |-> t.tier,
        tier_num |-> IF macro_regime.label = "UNFAVORABLE" /\ t.tier_num < 2
                     THEN t.tier_num + 1 ELSE t.tier_num,
        macro_label |-> macro_regime.label,
        options_contamination |-> <<>>]

\* classify_signals, lines 369-382: the signal dict of one purchase;
\* options_contamination is {} (here <<>>) until check_signals_contamination fills it
SignalOf(p, si, macro_regime) ==
    LET t == signal_tier(si)
    IN [ticker |-> p.ticker, insider_name |-> p.insider_name,
        total_value |-> p.total_value,
        days_to_cover |-> si.days_to_cover, si_change_pct |-> si.si_change_pct,
        si_error |-> si.error,
        tier |-> t.tier, tier_num |-> t.tier_num,
        macro_label |-> macro_regime.label,
        options_contamination |-> <<>>]

\* classify_signals: one signal per purchase, sorted by (tier_num, -total_value)
classify_signals(ps, data, macro_regime) ==
    LET sigs == List([i \in 1..Len(ps) |->
                    SignalOf(ps[i], SiGet(data, ps[i].ticker), macro_regime)])
    IN Items(StableSort([i \in 1..Len(sigs) |->
           <<<<sigs[i].tier_num, 0 - sigs[i].total_value>>, sigs[i]>>]))

\* What check_options_contamination(ticker, event_date) does for a signal:
\* a result dict (clean, contaminated, or carrying an error), or an exception
ContaminationOutcomes == {"clean", "contaminated", "error", "raises"}

ContaminationResult(outcome) ==
    [contaminated |-> outcome = "contaminated",
     error |-> CASE outcome = "error"  -> "no data"
                 [] outcome = "raises" -> "exception"
                 [] OTHER -> None]

\* check_signals_contamination: returns at once when the module is unavailable,
\* else attaches a result (or the except-branch record) to every signal
check_signals_contamination(sigs, available, outcome) ==
    IF ~available
    THEN sigs
    ELSE List([i \in 1..Len(sigs) |->
            [sigs[i] EXCEPT !.options_contamination = <<ContaminationResult(outcome)>>]])


(***************************************************************************)
(* cross_signal_scanner.py: get_macro_regime                               *)
(***************************************************************************)
\* Series values are held in hundredths (VIX 30 is 3000, a spread of 0.5 is 50);
\* <<>> stands for a series without a row (None), <<v>> for its latest value.

\* The yield-curve test without its lower end (yc < 0.5).
YieldCurveFlat_no_floor(yc) == yc # <<>> /\ yc[1] < 50

\* result['yc'] is not None and 0 <= result['yc'] < 0.5
YieldCurveFlat(yc) == yc # <<>> /\ 0 <= yc[1] /\ yc[1] < 50

\* get_macro_regime: db.state is "missing" (no database file), "ok", or names
\* the series whose read raises
get_macro_regime(db) ==
    LET unread == [vix |-> <<>>, yc |-> <<>>, credit |-> <<>>, flags |-> <<>>,
                   label |-> "UNKNOWN", error |-> None]
    IN IF db.state = "missing"
       THEN [unread EXCEPT !.error = "FRED DB not found"]
       ELSE IF db.state = "fails_vix"
       THEN [unread EXCEPT !.error = "read error"]
       ELSE IF db.state = "fails_yc"
       THEN [unread EXCEPT !.vix = db.vix, !.error = "read error"]
       ELSE IF db.state = "fails_credit"
       THEN [unread EXCEPT !.vix = db.vix, !.yc = db.yc, !.error = "read error"]
       ELSE LET flags ==
                    (IF db.vix # <<>> /\ db.vix[1] > 3000 THEN <<"vix">> ELSE <<>>)
                    \o (IF YieldCurveFlat(db.yc) THEN <<"yc">> ELSE <<>>)
                    \o (IF db.credit # <<>> /\ db.credit[1] >= 400 THEN <<"credit">> ELSE <<>>)
            IN [vix |-> db.vix, yc |-> db.yc, credit |-> db.credit, flags |-> flags,
                label |-> IF Len(flags) >= 2 THEN "UNFAVORABLE"
                          ELSE IF Len(flags) = 1 THEN "CAUTION" ELSE "FAVORABLE",
                error |-> None]

(***************************************************************************)
(* Initial states and specifications                                       *)
(***************************************************************************)
MaxSells       == 2     \* rows returned by get_significant_sells
MaxPurchases   == 3     \* rows of the purchases DataFrame
MaxDate        == 10    \* last TRANS_DATE of the purchases DataFrame
MaxLedgerCalls == 3     \* calls made on the alert ledger API

SellIdle ==
    /\ sell = NotRun /\ classified = NotRun
    /\ raw_sells = <<>> /\ sell_signals = NotRun

ClusterIdle ==
    /\ purchases = <<>> /\ window_days = 0 /\ min_insiders = 0
    /\ clusters_df = NotRun

ScanInit ==
    /\ clock = 10
    /\ transactions = <<>>
    /\ processed = [a \in Accessions |-> "none"]
    /\ sent_alerts = <<>>
    /\ outbox = <<>>
    /\ cross_log = 0
    /\ pc = "idle"
    /\ args = NoFlags
    /\ scan = NoScan
    /\ runs_started = 0
    /\ faults = 0
    /\ lost_records = <<>>
    /\ weekend_skips = 0

LedgerIdle == ledger_calls = <<>>

CrossIdle ==
    /\ tier2_purchases = <<>> /\ si_data = NoSIData /\ options_available = FALSE
    /\ signals = NotRun /\ cross_pc = "input"

LiveIdle == live_table = <<>> /\ live_clusters = NotRun

FnIdle ==
    /\ alerts_out = NotRun
    /\ feed = <<>>
    /\ score_in = <<>> /\ score_out = NotRun
    /\ macro_in = <<>> /\ macro_out = NotRun
    /\ tier2_in = <<>> /\ tier2_out = NotRun

\* ---- SpecSell
SellValues == {NULL, 0, 249999, 250000, 1000000, 5000000, 5000001, 10000000}

SellInputs ==
    [ticker : {"AAA"}, company_name : {"AAA"}, insider_name : {"Ann"},
     insider_title : {"", "CFO"}, is_officer : {0, 1, NULL}, is_director : {0, 1, NULL},
     total_value : SellValues]

\* Rows get_significant_sells can return: total_value >= min_value, never NULL.
RawSellRows ==
    [ticker : {"AAA", "BBB"}, company_name : {"Co"}, insider_name : {"Ann", "Bob"},
     insider_title : {""}, is_officer : {0, 1}, is_director : {0, 1},
     total_value : {100000, 1000000, 6000000}]

\* ORDER BY total_value DESC
SortedByValueDesc(rows) ==
    \A i \in 1..(Len(rows) - 1) : rows[i].total_value >= rows[i + 1].total_value

RawSellLists ==
    {rows \in UNION {[1..n -> RawSellRows] : n \in 0..MaxSells} : SortedByValueDesc(rows)}

InitSell ==
    /\ \/ sell \in {<<s>> : s \in SellInputs} /\ raw_sells = <<>>
       \/ sell = NotRun /\ raw_sells \in RawSellLists \ {<<>>}
    /\ classified = NotRun
    /\ sell_signals = NotRun
    /\ ClusterIdle /\ ScanInit /\ LedgerIdle /\ CrossIdle /\ LiveIdle /\ FnIdle

ClassifySell ==
    /\ sell # NotRun
    /\ classified = NotRun
    /\ classified' = <<classify_sell(sell[1])>>
    /\ UNCHANGED <<sell, raw_sells, sell_signals, clusterVars, scanVars, ledger_calls,
                   crossVars, liveVars, fnVars>>

FindSellSignals ==
    /\ sell = NotRun
    /\ sell_signals = NotRun
    /\ sell_signals' = <<find_sell_signals(raw_sells)>>
    /\ UNCHANGED <<sell, classified, raw_sells, clusterVars, scanVars, ledger_calls,
                   crossVars, liveVars, fnVars>>

NextSell == ClassifySell \/ FindSellSignals

SpecSell == InitSell /\ [][NextSell]_vars

\* ---- SpecCluster
Insiders   == {"A", "B", "C"}
DateSet    == {0, 1, MaxDate}
Windows    == {1, MaxDate - 1}
MinDomain  == 1..3

RoleOf(name) == CASE name = "A" -> "CEO" [] name = "B" -> "Director" [] OTHER -> "CFO"

PurchaseRow(tk, d, name) ==
    [TICKER |-> tk, ISSUERNAME |-> tk, TRANS_DATE |-> d, RPTOWNERNAME |-> name,
     ROLE |-> RoleOf(name), TRANS_SHARES |-> 100, DOLLAR_VALUE |-> 1000]

\* A fixed enumeration of the rows, insider-major, so that the DataFrame is not
\* presented in date order.
RowRank(r) ==
    (CASE r.RPTOWNERNAME = "A" -> 0 [] r.RPTOWNERNAME = "B" -> 1 [] OTHER -> 2) * 1000
    + TickerRank(r.TICKER) * 100 + r.TRANS_DATE

PurchaseRows == {PurchaseRow(tk, d, n) : tk \in Tickers, d \in DateSet, n \in Insiders}

\* The DataFrames of n rows, one representative per multiset of rows.
RECURSIVE Frames(_)
Frames(n) ==
    IF n = 0 THEN {<<>>}
    ELSE UNION {{Append(f, r) : r \in {x \in PurchaseRows :
                                           f = <<>> \/ RowRank(f[Len(f)]) <= RowRank(x)}} :
                f \in Frames(n - 1)}

InitCluster ==
    /\ purchases \in UNION {Frames(n) : n \in 0..MaxPurchases}
    /\ window_days \in Windows
    /\ min_insiders \in MinDomain
    /\ clusters_df = NotRun
    /\ SellIdle /\ ScanInit /\ LedgerIdle /\ CrossIdle /\ LiveIdle /\ FnIdle

DetectClusters ==
    /\ clusters_df = NotRun
    /\ window_days > 0
    /\ clusters_df' = <<detect_clusters(purchases, window_days, min_insiders)>>
    /\ UNCHANGED <<purchases, window_days, min_insiders, sellVars, scanVars, ledger_calls,
                   crossVars, liveVars, fnVars>>

NextCluster == DetectClusters

SpecCluster == InitCluster /\ [][NextCluster]_vars

\* ---- SpecLedger: database.py's alert ledger driven by arbitrary callers
LedgerTypes   == {"cluster", "sell_s1"}
LedgerTickers == {"AAA", "BBB"}
LedgerDates   == {10, 11}
LedgerDetails == {Details("insiders", 2, 0), Details("insiders", 3, 0)}

CallRecord(ty, tk, d, det) ==
    /\ Len(ledger_calls) < MaxLedgerCalls
    /\ sent_alerts' = record_alert_sent(sent_alerts, ty, tk, d, det)
    /\ ledger_calls' = Append(ledger_calls,
          [op |-> "record_alert_sent", alert_type |-> ty, ticker |-> tk,
           alert_date |-> d, details |-> det, result |-> FALSE])
    /\ UNCHANGED <<sellVars, clusterVars, clock, transactions, processed, outbox,
                   cross_log, pc, args, scan, runs_started, faults, lost_records,
                   weekend_skips, crossVars, liveVars, fnVars>>

CallWasSent(ty, tk, d) ==
    /\ Len(ledger_calls) < MaxLedgerCalls
    /\ ledger_calls' = Append(ledger_calls,
          [op |-> "was_alert_sent", alert_type |-> ty, ticker |-> tk,
           alert_date |-> d, details |-> Details("", 0, 0),
           result |-> was_alert_sent(sent_alerts, ty, tk, d)])
    /\ UNCHANGED <<sellVars, clusterVars, scanVars, crossVars, liveVars, fnVars>>

InitLedger == SellIdle /\ ClusterIdle /\ ScanInit /\ LedgerIdle /\ CrossIdle /\ LiveIdle /\ FnIdle

NextLedger ==
    \E ty \in LedgerTypes, tk \in LedgerTickers, d \in LedgerDates :
        \/ \E det \in LedgerDetails : CallRecord(ty, tk, d, det)
        \/ CallWasSent(ty, tk, d)

SpecLedger == InitLedger /\ [][NextLedger]_vars

\* ---- Spec: the scans
\* ---- SpecCross
MaxTier2 == 2     \* Tier2 purchases handed to classify_signals

CrossTickers == {"AAA", "BBB"}

\* Rows filter_tier2 lets through: C-suite, total_value >= 500,000
Tier2Rows ==
    [ticker : CrossTickers, insider_name : {"Ann"}, total_value : {500000, 700000}]

Tier2Lists == UNION {[1..n -> Tier2Rows] : n \in 1..MaxTier2}

\* yfinance answers: an exception with or without a message, no prior-month
\* figure, or (shortRatio, sharesShort) against sharesShortPriorMonth = 100
InfoOutcomes ==
    {Info(TRUE, "timeout", 0, 0, 0), Info(TRUE, "", 0, 0, 0), Info(FALSE, "", 6, 50, 0),
     Info(FALSE, "", NULL, 130, 100)}
    \cup {Info(FALSE, "", r[1], r[2], 100) :
            r \in {<<4, 130>>, <<4, 110>>, <<5, 130>>, <<6, 130>>, <<6, 126>>,
                   <<6, 125>>, <<6, 115>>, <<6, 111>>, <<6, 110>>}}

MacroRegimes == {[label |-> "FAVORABLE"], [label |-> "UNFAVORABLE"]}

InitCross ==
    /\ tier2_purchases \in Tier2Lists
    /\ \E yfinance_installed \in BOOLEAN :
         LET tickers == {tier2_purchases[i].ticker : i \in 1..Len(tier2_purchases)}
         IN \E info \in [tickers -> InfoOutcomes] :
                si_data = fetch_short_interest(tickers, yfinance_installed, info)
    /\ options_available \in BOOLEAN
    /\ signals = NotRun
    /\ cross_pc = "input"
    /\ SellIdle /\ ClusterIdle /\ ScanInit /\ LedgerIdle /\ LiveIdle /\ FnIdle

\* main() step 4: signals = classify_signals(tier2, si_data, macro_regime)
ClassifySignals ==
    /\ cross_pc = "input"
    /\ \E macro_regime \in MacroRegimes :
         signals' = <<classify_signals(tier2_purchases, si_data, macro_regime)>>
    /\ cross_pc' = "classified"
    /\ UNCHANGED <<tier2_purchases, si_data, options_available, sellVars, clusterVars,
                   scanVars, ledger_calls, liveVars, fnVars>>

\* main() step 4.5: check_signals_contamination(signals) mutates the dicts in place
CheckSignalsContamination ==
    /\ cross_pc = "classified"
    /\ \E outcome \in ContaminationOutcomes :
         signals' = <<check_signals_contamination(signals[1], options_available, outcome)>>
    /\ cross_pc' = "checked"
    /\ UNCHANGED <<tier2_purchases, si_data, options_available, sellVars, clusterVars,
                   scanVars, ledger_calls, liveVars, fnVars>>

NextCross == ClassifySignals \/ CheckSignalsContamination

SpecCross == InitCross /\ [][NextCross]_vars


\* ---- SpecOrder
MaxOrderRows == 3    \* rows of the purchases DataFrame, presented in every order

OrderRows == {PurchaseRow(tk, d, n) : tk \in Tickers, d \in DateSet, n \in {"A", "B"}}

InitOrder ==
    /\ purchases \in UNION {[1..n -> OrderRows] : n \in 0..MaxOrderRows}
    /\ window_days \in Windows
    /\ min_insiders \in 1..2
    /\ clusters_df = NotRun
    /\ SellIdle /\ ScanInit /\ LedgerIdle /\ CrossIdle /\ LiveIdle /\ FnIdle

SpecOrder == InitOrder /\ [][NextCluster]_vars

\* ---- SpecScenario
CLUSTER_WINDOW_DAYS == 14
MIN_CLUSTER_SIZE    == 3

\* Insiders A, B, C buy AAA on days 1, 5 and 12
ScenarioCore  == {PurchaseRow("AAA", 1, "A"), PurchaseRow("AAA", 5, "B"),
                  PurchaseRow("AAA", 12, "C")}
\* A buys AAA again on day 20
ScenarioLate  == PurchaseRow("AAA", 20, "A")
\* A purchase of another ticker, which takes no part in the AAA windows
ScenarioOther == PurchaseRow("BBB", 5, "B")

ScenarioRows  == ScenarioCore \cup {ScenarioLate, ScenarioOther}

\* Every selection of the rows, in every row order
InitScenario ==
    /\ purchases \in {f \in UNION {[1..n -> ScenarioRows] : n \in 0..Cardinality(ScenarioRows)} :
                         \A i, j \in 1..Len(f) : i # j => f[i] # f[j]}
    /\ window_days = CLUSTER_WINDOW_DAYS
    /\ min_insiders = MIN_CLUSTER_SIZE
    /\ clusters_df = NotRun
    /\ SellIdle /\ ScanInit /\ LedgerIdle /\ CrossIdle /\ LiveIdle /\ FnIdle

SpecScenario == InitScenario /\ [][NextCluster]_vars

\* ---- SpecLive
MaxLiveRows == 3     \* rows of form4_transactions in the live detector's table

\* Open-market purchases of one ticker inside the 14-day window: two filers,
\* whose names may coincide, below and above min_purchase_value
LiveRows ==
    {TxnRow("acc", "AAA", cik, name, "", 0, 1, 0, date, "P", "A", value) :
        cik \in {"i1", "i2"}, name \in {"Ann", "Bob"}, date \in {8, 10},
        value \in {5000, 20000}}

InitLive ==
    /\ live_table \in UNION {[1..n -> LiveRows] : n \in 0..MaxLiveRows}
    /\ live_clusters = NotRun
    /\ SellIdle /\ ClusterIdle /\ ScanInit /\ LedgerIdle /\ CrossIdle /\ FnIdle

\* analyzer.find_clusters() as analyze_and_alert calls it
FindClusters ==
    /\ live_clusters = NotRun
    /\ live_clusters' = <<find_clusters(live_table, clock)>>
    /\ UNCHANGED <<live_table, sellVars, clusterVars, scanVars, ledger_calls, crossVars, fnVars>>

NextLive == FindClusters

SpecLive == InitLive /\ [][NextLive]_vars


Init == SellIdle /\ ClusterIdle /\ ScanInit /\ LedgerIdle /\ CrossIdle /\ LiveIdle /\ FnIdle

Next ==
    \/ \E a \in Flags : StartScan(a)
    \/ FetchFiling \/ FetchXmlFails \/ StoreTxn \/ MarkSuccess \/ StoreRaises \/ FetchDone
    \/ AnalyzeBuys \/ BuySendFails \/ RecordAlert
    \/ AnalyzeSells \/ SellSendFails
    \/ StatusReport
    \/ Interrupt \/ Tick
    \/ \E dry \in BOOLEAN : StartCross(dry)
    \/ CrossRun

Spec == Init /\ [][Next]_vars

\* ---- SpecScore
ScoreInputs ==
    [unique_insiders : 1..3,
     total_purchased : {0, 10000, 100000, 1000000},
     last_purchase   : {DateText(d) : d \in {0, 2, 3, 6, 7, 10, 11}}
                          \cup {NoDate, EmptyDate, BadDate}]

InitScore ==
    /\ score_in \in ScoreInputs
    /\ score_out = NotRun
    /\ alerts_out = NotRun /\ feed = <<>>
    /\ macro_in = <<>> /\ macro_out = NotRun
    /\ tier2_in = <<>> /\ tier2_out = NotRun
    /\ SellIdle /\ ClusterIdle /\ ScanInit /\ LedgerIdle /\ CrossIdle /\ LiveIdle

CalculateSignalScore ==
    /\ score_out = NotRun
    /\ score_out' = <<calculate_signal_score(score_in, clock)>>
    /\ UNCHANGED <<sellVars, clusterVars, scanVars, ledger_calls, crossVars, liveVars,
                   alerts_out, feed, score_in, macro_in, macro_out, tier2_in, tier2_out>>

SpecScore == InitScore /\ [][CalculateSignalScore]_vars

\* ---- SpecAlerts
\* What form4_transactions can hold of one ticker: nothing, one purchase, or
\* purchases by two or three insiders, the last of them 8, 4 or 1 days old
AlertPurchase(tk, cik, name, date, value) ==
    TxnRow("acc", tk, cik, name, "", 0, 1, 0, date, "P", "A", value)

TickerHoldings(tk) ==
    {<<>>, <<AlertPurchase(tk, "i1", "Ann", 9, 50000)>>}
    \cup {<<AlertPurchase(tk, "i1", "Ann", 2, 50000), AlertPurchase(tk, "i2", "Bob", d, v)>> :
             d \in {2, 6, 9}, v \in {50000, 600000}}
    \cup {<<AlertPurchase(tk, "i1", "Ann", 2, 50000), AlertPurchase(tk, "i2", "Bob", 2, 50000),
            AlertPurchase(tk, "i3", "Cy", d, 50000)>> : d \in {2, 6, 9}}

\* Rows sent_alerts can hold before the call
LedgerRows ==
    <<AlertRow("cluster", "AAA", 10, Details("insiders", 2, 0)),
      AlertRow("cluster", "BBB", 10, Details("insiders", 2, 0)),
      AlertRow("cluster", "AAA", 9, Details("insiders", 2, 0)),
      AlertRow("sell_s1", "BBB", 10, Details("insiders", 2, 0))>>

InitAlerts ==
    /\ \E a \in TickerHoldings("AAA"), b \in TickerHoldings("BBB") : live_table = a \o b
    /\ live_clusters = NotRun
    /\ alerts_out = NotRun
    /\ \E keep \in SUBSET (1..Len(LedgerRows)) :
          sent_alerts = SelectSeq(LedgerRows, LAMBDA r :
                            \E k \in keep : LedgerRows[k] = r)
    /\ clock = 10 /\ transactions = <<>> /\ processed = [a \in Accessions |-> "none"]
    /\ outbox = <<>> /\ cross_log = 0 /\ pc = "idle" /\ args = NoFlags /\ scan = NoScan
    /\ runs_started = 0 /\ faults = 0 /\ lost_records = <<>> /\ weekend_skips = 0
    /\ feed = <<>> /\ score_in = <<>> /\ score_out = NotRun
    /\ macro_in = <<>> /\ macro_out = NotRun /\ tier2_in = <<>> /\ tier2_out = NotRun
    /\ SellIdle /\ ClusterIdle /\ LedgerIdle /\ CrossIdle

GetNewAlerts ==
    /\ alerts_out = NotRun
    /\ alerts_out' = <<get_new_alerts(live_table, sent_alerts, clock)>>
    /\ UNCHANGED <<sellVars, clusterVars, scanVars, ledger_calls, crossVars, liveVars,
                   feed, score_in, score_out, macro_in, macro_out, tier2_in, tier2_out>>

SpecAlerts == InitAlerts /\ [][GetNewAlerts]_vars

\* ---- SpecMacro
MacroDatabases ==
    [state  : {"missing", "ok", "fails_vix", "fails_yc", "fails_credit"},
     vix    : {<<>>, <<3000>>, <<3010>>},
     yc     : {<<>>, <<0 - 10>>, <<0>>, <<49>>, <<50>>},
     credit : {<<>>, <<399>>, <<400>>}]

InitMacro ==
    /\ macro_in \in MacroDatabases
    /\ macro_out = NotRun
    /\ alerts_out = NotRun /\ feed = <<>>
    /\ score_in = <<>> /\ score_out = NotRun
    /\ tier2_in = <<>> /\ tier2_out = NotRun
    /\ SellIdle /\ ClusterIdle /\ ScanInit /\ LedgerIdle /\ CrossIdle /\ LiveIdle

GetMacroRegime ==
    /\ macro_out = NotRun
    /\ macro_out' = <<get_macro_regime(macro_in)>>
    /\ UNCHANGED <<sellVars, clusterVars, scanVars, ledger_calls, crossVars, liveVars,
                   alerts_out, feed, score_in, score_out, macro_in, tier2_in, tier2_out>>

SpecMacro == InitMacro /\ [][GetMacroRegime]_vars

\* ---- SpecDedup
\* Purchases a week apart, so that signal dates 1, 7, 8 and 15 days apart occur
DedupRows == {PurchaseRow(tk, d, n) : tk \in Tickers, d \in {0, 7, 8, 15}, n \in {"A", "B"}}

InitDedup ==
    /\ purchases \in {f \in UNION {[1..n -> DedupRows] : n \in 0..MaxPurchases} :
                         \A i \in 1..(Len(f) - 1) : RowRank(f[i]) <= RowRank(f[i + 1])}
    /\ window_days \in {1, 7}
    /\ min_insiders \in 1..2
    /\ clusters_df = NotRun
    /\ SellIdle /\ ScanInit /\ LedgerIdle /\ CrossIdle /\ LiveIdle /\ FnIdle

SpecDedup == InitDedup /\ [][NextCluster]_vars

\* ---- SpecTier2
MaxBatch == 2

\* Purchases as get_recent_purchases hands them to filter_tier2: the officer
\* title of the filing (None when the filer is no officer) and the dollar value
Tier2Titles == {None, "", "CEO", "Chief Financial Officer", "President",
                "Vice President", "Managing Director", "General Counsel"}
Tier2Values == {499999, 500000, 750000}
BatchRows   == [insider_title : Tier2Titles, total_value : Tier2Values]

InitTier2 ==
    /\ SellIdle /\ ClusterIdle /\ ScanInit /\ LedgerIdle /\ CrossIdle /\ LiveIdle
    /\ tier2_in \in UNION {[1..n -> BatchRows] : n \in 0..MaxBatch}
    /\ tier2_out = NotRun
    /\ alerts_out = NotRun /\ feed = <<>>
    /\ score_in = <<>> /\ score_out = NotRun
    /\ macro_in = <<>> /\ macro_out = NotRun

FilterTier2 ==
    /\ tier2_out = NotRun
    /\ tier2_out' = <<filter_tier2(tier2_in)>>
    /\ UNCHANGED <<sellVars, clusterVars, scanVars, ledger_calls, crossVars, liveVars,
                   alerts_out, feed, score_in, score_out, macro_in, macro_out, tier2_in>>

SpecTier2 == InitTier2 /\ [][FilterTier2]_vars

\* ---- SpecFetch
MaxFeed == 2         \* filings in the feed handed to one fetch loop

\* Entries get_recent_form4_filings can return: well-formed filings, one that
\* lacks its CIK and one that lacks its accession number
FetchFilings ==
    {FeedUniverse[1], FeedUniverse[2], FeedUniverse[3],
     [accession_number |-> "acc2", cik |-> "", transactions |-> <<>>],
     [accession_number |-> "", cik |-> "c1", transactions |-> <<>>]}

Feeds == UNION {[1..n -> FetchFilings] : n \in 0..MaxFeed}

\* fetch_and_store_filings is entered with the feed f
StartFetch(f) ==
    /\ pc = "idle"
    /\ runs_started < MaxRuns
    /\ runs_started' = runs_started + 1
    /\ pc' = "fetch"
    /\ feed' = f
    /\ scan' = [NoScan EXCEPT !.filings = f, !.today = clock]
    /\ UNCHANGED <<sellVars, clusterVars, ledger_calls, crossVars, liveVars, alerts_out,
                   score_in, score_out, macro_in, macro_out, tier2_in, tier2_out,
                   clock, transactions, processed, sent_alerts, outbox, cross_log, args,
                   faults, lost_records, weekend_skips>>

\* The loop is over and fetch_and_store_filings returns
EndFetch ==
    /\ pc = "fetch"
    /\ scan.filings = <<>>
    /\ pc' = "idle"
    /\ scan' = NoScan
    /\ feed' = <<>>
    /\ UNCHANGED <<sellVars, clusterVars, ledger_calls, crossVars, liveVars, alerts_out,
                   score_in, score_out, macro_in, macro_out, tier2_in, tier2_out,
                   clock, transactions, processed, sent_alerts, outbox, cross_log, args,
                   runs_started, faults, lost_records, weekend_skips>>

NextFetch ==
    \/ \E f \in Feeds : StartFetch(f)
    \/ FetchFiling \/ FetchXmlFails \/ StoreTxn \/ MarkSuccess \/ StoreRaises
    \/ EndFetch

SpecFetch == Init /\ [][NextFetch]_vars



(***************************************************************************)
(* Properties: the sell classifier (SpecSell)                              *)
(***************************************************************************)
\* C1: classify_sell returns exactly one tier of {S1, S2, SELL_WATCH} for every
\* input, by first match: S1 iff officer and director and 250,000 <= value <=
\* 5,000,000 (both ends included); else S2 iff officer or director and the value
\* in that range; else SELL_WATCH. A missing value counts as 0. The four worked
\* examples of the specification come out as S1, S2, SELL_WATCH, SELL_WATCH.
C1_ClassifySellFirstMatch ==
    /\ classified # NotRun =>
         LET s   == sell[1]
             off == s.is_officer = 1
             dir == s.is_director = 1
             v   == IF s.total_value = NULL THEN 0 ELSE s.total_value
             inRange  == 250000 <= v /\ v <= 5000000
             expected == IF off /\ dir /\ inRange THEN "S1"
                         ELSE IF (off \/ dir) /\ inRange THEN "S2"
                         ELSE "SELL_WATCH"
         IN /\ classified[1].tier_tag \in {"S1", "S2", "SELL_WATCH"}
            /\ classified[1].tier_tag = expected
    /\ LET Ex(off, dir, v) ==
               classify_sell([ticker |-> "AAA", company_name |-> "AAA",
                   insider_name |-> "Ann", insider_title |-> "",
                   is_officer |-> off, is_director |-> dir, total_value |-> v]).tier_tag
       IN /\ Ex(1, 1, 1000000) = "S1"
          /\ Ex(1, 0, 1000000) = "S2"
          /\ Ex(0, 0, 1000000) = "SELL_WATCH"
          /\ Ex(1, 1, 10000000) = "SELL_WATCH"

\* C1 witness: a dual-role sell of exactly $5,000,000 has been classified S1, and
\* (in another run) a sell with no value has been classified.
C1_Witness ==
    /\ classified # NotRun
    /\ sell[1].is_officer = 1 /\ sell[1].is_director = 1
    /\ sell[1].total_value = 5000000
    /\ classified[1].tier_tag = "S1"

TierStrength(tag) == CASE tag = "S1" -> 3 [] tag = "S2" -> 2 [] OTHER -> 1

\* C9: the ticker-level tier_tag of find_sell_signals is the strongest tier among
\* that ticker's classified sells (S1 > S2 > SELL_WATCH), and every ticker of the
\* input gets exactly one result row.
C9_RollupIsStrongestTier ==
    sell_signals # NotRun =>
        LET res == sell_signals[1]
            TagOf(i) == classify_sell(raw_sells[i]).tier_tag
        IN /\ \A i \in 1..Len(raw_sells) :
                Cardinality({j \in 1..Len(res) : res[j].ticker = raw_sells[i].ticker}) = 1
           /\ \A j \in 1..Len(res) :
                LET mine == {i \in 1..Len(raw_sells) : raw_sells[i].ticker = res[j].ticker}
                IN /\ \E i \in mine : TagOf(i) = res[j].tier_tag
                   /\ \A i \in mine : TierStrength(res[j].tier_tag) >= TierStrength(TagOf(i))

\* C9 witness: a ticker with one S1 sell and one SELL_WATCH sell rolled up to S1.
C9_Witness ==
    /\ sell_signals # NotRun
    /\ \E j \in 1..Len(sell_signals[1]) :
        LET r == sell_signals[1][j]
        IN /\ r.tier_tag = "S1"
           /\ Len(r.sells) = 2
           /\ \E a, b \in 1..2 : r.sells[a].tier_tag = "S1" /\ r.sells[b].tier_tag = "SELL_WATCH"

(***************************************************************************)
(* Properties: the cluster detector (SpecCluster)                          *)
(***************************************************************************)
\* Some closed span [a, a + w] holds purchases of ticker tk by at least m
\* distinct insiders.
HasSpan(P, tk, w, m) ==
    \E a \in 0..MaxDate :
        Cardinality({P[i].RPTOWNERNAME :
                       i \in {k \in 1..Len(P) : /\ P[k].TICKER = tk
                                                /\ a <= P[k].TRANS_DATE
                                                /\ P[k].TRANS_DATE <= a + w}}) >= m

ClusterTickers(rows) == {rows[j].ticker : j \in 1..Len(rows)}

ClusterCount(rows, tk) == Cardinality({j \in 1..Len(rows) : rows[j].ticker = tk})

\* C2: detect_clusters emits at least one cluster for a ticker if and only if
\* some span of at most window_days (closed at both ends) holds purchases of
\* that ticker by at least min_insiders distinct insiders.
C2_ClusterIffSpan ==
    clusters_df # NotRun =>
        \A tk \in Tickers :
            (tk \in ClusterTickers(clusters_df[1]))
                <=> HasSpan(purchases, tk, window_days, min_insiders)

\* C2 witness: a cluster was emitted that needs the purchase dated exactly
\* window_days after the window start (no shorter span holds enough insiders).
C2_Witness ==
    /\ clusters_df # NotRun
    /\ min_insiders >= 2
    /\ "AAA" \in ClusterTickers(clusters_df[1])
    /\ ~HasSpan(purchases, "AAA", window_days - 1, min_insiders)

Stricter(w2, m2) == w2 <= window_days /\ m2 >= min_insiders

\* C3 as stated: with a smaller window_days or a larger min_cluster_size the
\* number of clusters emitted per ticker never increases.
C3_CountNeverIncreases ==
    clusters_df # NotRun =>
        \A w2 \in Windows, m2 \in MinDomain :
            Stricter(w2, m2) =>
                \A tk \in Tickers :
                    ClusterCount(detect_clusters(purchases, w2, m2), tk)
                        <= ClusterCount(clusters_df[1], tk)

CandidateStarts(P, w, m) ==
    LET cs == Candidates(P, w, m)
    IN {<<cs[i].ticker, cs[i].cluster_start>> : i \in 1..Len(cs)}

\* C3 as amended: with a smaller window_days or a larger min_cluster_size every
\* window start that still qualifies as a candidate qualified before, and every
\* ticker that still gets a cluster got one before; the number of clusters kept
\* per ticker after the 7-day deduplication is not monotone.
C3_CandidatesAndTickersMonotone ==
    clusters_df # NotRun =>
        \A w2 \in Windows, m2 \in MinDomain :
            Stricter(w2, m2) =>
                /\ CandidateStarts(purchases, w2, m2)
                     \subseteq CandidateStarts(purchases, window_days, min_insiders)
                /\ ClusterTickers(detect_clusters(purchases, w2, m2))
                     \subseteq ClusterTickers(clusters_df[1])

\* C3 witness: clusters were emitted and a stricter setting removes them all.
C3_Witness ==
    /\ clusters_df # NotRun
    /\ clusters_df[1] # <<>>
    /\ \E w2 \in Windows, m2 \in MinDomain :
           Stricter(w2, m2) /\ detect_clusters(purchases, w2, m2) = <<>>

(***************************************************************************)
(* Properties: the alert ledger API (SpecLedger)                           *)
(***************************************************************************)
SameKey(c1, c2) ==
    /\ c1.alert_type = c2.alert_type
    /\ c1.ticker = c2.ticker
    /\ c1.alert_date = c2.alert_date

RecordedBefore(j) ==
    \E i \in 1..(j - 1) :
        ledger_calls[i].op = "record_alert_sent" /\ SameKey(ledger_calls[i], ledger_calls[j])

\* C6: was_alert_sent returns true exactly for the (alert_type, ticker, date)
\* triples some earlier record_alert_sent call named, whatever calls came in
\* between; a triple that differs in alert_type or date was never recorded and
\* gives false; and every recorded triple is still reported as sent now.
C6_DedupGateRoundTrip ==
    \A j \in 1..Len(ledger_calls) :
        /\ ledger_calls[j].op = "was_alert_sent" =>
               (ledger_calls[j].result <=> RecordedBefore(j))
        /\ ledger_calls[j].op = "record_alert_sent" =>
               was_alert_sent(sent_alerts, ledger_calls[j].alert_type,
                              ledger_calls[j].ticker, ledger_calls[j].alert_date)

\* C6 witness: a triple was recorded, then checked (true), then the same ticker
\* and alert_type was checked for another date (false).
C6_Witness ==
    /\ Len(ledger_calls) = 3
    /\ ledger_calls[1].op = "record_alert_sent"
    /\ ledger_calls[2].op = "was_alert_sent" /\ SameKey(ledger_calls[1], ledger_calls[2])
    /\ ledger_calls[2].result
    /\ ledger_calls[3].op = "was_alert_sent"
    /\ ledger_calls[3].ticker = ledger_calls[1].ticker
    /\ ledger_calls[3].alert_type = ledger_calls[1].alert_type
    /\ ledger_calls[3].alert_date # ledger_calls[1].alert_date
    /\ ~ledger_calls[3].result

\* C7: the ledger never holds two rows with one (alert_type, ticker, alert_date),
\* and the row of a key carries the details of the first record_alert_sent call
\* for that key: a later call for the key changes nothing.
C7_OneRecordPerKeyFirstWriterWins ==
    /\ \A i, j \in 1..Len(sent_alerts) :
           (/\ sent_alerts[i].alert_type = sent_alerts[j].alert_type
            /\ sent_alerts[i].issuer_ticker = sent_alerts[j].issuer_ticker
            /\ sent_alerts[i].alert_date = sent_alerts[j].alert_date) => i = j
    /\ \A j \in 1..Len(ledger_calls) :
           (ledger_calls[j].op = "record_alert_sent" /\ ~RecordedBefore(j)) =>
               \E r \in 1..Len(sent_alerts) :
                   /\ sent_alerts[r].alert_type = ledger_calls[j].alert_type
                   /\ sent_alerts[r].issuer_ticker = ledger_calls[j].ticker
                   /\ sent_alerts[r].alert_date = ledger_calls[j].alert_date
                   /\ sent_alerts[r].details = ledger_calls[j].details

\* C7 witness: record_alert_sent was called twice for one key with different details.
C7_Witness ==
    \E i, j \in 1..Len(ledger_calls) :
        /\ i < j
        /\ ledger_calls[i].op = "record_alert_sent"
        /\ ledger_calls[j].op = "record_alert_sent"
        /\ SameKey(ledger_calls[i], ledger_calls[j])
        /\ ledger_calls[i].details # ledger_calls[j].details


(***************************************************************************)
(* Properties: scans, interrupts and the dry run (Spec)                    *)
(***************************************************************************)
AlertKeys ==
    {"cluster", "sell_s1", "sell_s2", "sell_sell_watch"} \X {"AAA", "BBB", "CCC"}

\* Emails delivered on day d whose content covers the alert k = <<type, ticker>>.
SentCount(k, d) ==
    Cardinality({i \in 1..Len(outbox) : outbox[i].day = d /\ k \in outbox[i].keys})

\* Runs killed after emailing k on day d and before its record_alert_sent call.
LostCount(k, d) ==
    Cardinality({i \in 1..Len(lost_records) : lost_records[i] = <<k[1], k[2], d>>})

StoredCount(row) ==
    Cardinality({i \in 1..Len(transactions) : transactions[i] = row})

\* C5: each transaction of a filing is stored at most once, also when a scan
\* was interrupted between inserting the filing's transactions and marking the
\* filing processed and is then re-run.
C5_TransactionStoredAtMostOnce ==
    \A f \in 1..Len(FeedUniverse) :
        \A t \in 1..Len(FeedUniverse[f].transactions) :
            StoredCount(FeedUniverse[f].transactions[t]) <= 1

\* A sell row of form4_transactions that get_significant_sells selects today.
SignificantSellRows ==
    {i \in 1..Len(transactions) :
        /\ transactions[i].transaction_code = "S"
        /\ transactions[i].acquired_disposed = "D"
        /\ transactions[i].transaction_date >= clock - 3
        /\ transactions[i].total_value >= 50000}

RowTier(i) ==
    LET r == transactions[i]
        inRange == 250000 <= r.total_value /\ r.total_value <= 5000000
    IN IF r.is_officer = 1 /\ r.is_director = 1 /\ inRange THEN "S1"
       ELSE IF (r.is_officer = 1 \/ r.is_director = 1) /\ inRange THEN "S2"
       ELSE "SELL_WATCH"

\* C8: no email and no ledger record is ever produced for a SELL_WATCH signal:
\* every sell alert sent or recorded is of type sell_s1 or sell_s2 for a ticker
\* with a stored sell of that tier; a ticker whose sells are all SELL_WATCH is
\* not among the new sell alerts when the sell analysis runs, yet it stays in
\* the find_sell_signals result (the WATCH count of the log line).
C8_SellWatchLoggedNeverSent ==
    LET all_signals == all_sell_signals(transactions, clock)
        fresh   == get_new_sell_alerts(transactions, sent_alerts, clock)
        HasTier(ty, tk) ==
            \E i \in 1..Len(transactions) :
                /\ transactions[i].transaction_code = "S"
                /\ transactions[i].issuer_ticker = tk
                /\ SellAlertType(RowTier(i)) = ty
    IN /\ \A i \in 1..Len(outbox) : \A k \in outbox[i].keys :
            /\ k[1] # "sell_sell_watch"
            /\ outbox[i].kind = "sell" => k[1] \in {"sell_s1", "sell_s2"} /\ HasTier(k[1], k[2])
       /\ \A r \in 1..Len(sent_alerts) :
            /\ sent_alerts[r].alert_type # "sell_sell_watch"
            /\ sent_alerts[r].alert_type \in {"sell_s1", "sell_s2"} =>
                   HasTier(sent_alerts[r].alert_type, sent_alerts[r].issuer_ticker)
       /\ pc = "sell" =>
            \A i \in SignificantSellRows :
                \E j \in 1..Len(all_signals) :
                    /\ all_signals[j].ticker = transactions[i].issuer_ticker
                    /\ (\A i2 \in SignificantSellRows :
                            transactions[i2].issuer_ticker = all_signals[j].ticker
                                => RowTier(i2) = "SELL_WATCH")
                       => /\ all_signals[j].tier_tag = "SELL_WATCH"
                          /\ \A n \in 1..Len(fresh) : fresh[n].ticker # all_signals[j].ticker

\* C8 witness: a sell alert email went out and was recorded while a SELL_WATCH
\* ticker (CCC, a 10% owner's sale) was among the sell signals.
C8_Witness ==
    /\ \E i \in 1..Len(outbox) : outbox[i].kind = "sell"
    /\ \E r \in 1..Len(sent_alerts) : sent_alerts[r].alert_type = "sell_s1"
    /\ pc = "idle"
    /\ \E j \in 1..Len(all_sell_signals(transactions, clock)) :
           /\ all_sell_signals(transactions, clock)[j].ticker = "CCC"
           /\ all_sell_signals(transactions, clock)[j].tier_tag = "SELL_WATCH"

DryRunning == pc # "idle" /\ args.dry_run

\* C10 as stated: while a --dry-run of main.py or cross_signal_scanner.py is in
\* progress no email is sent, no alert is recorded, and the persisted state
\* (transactions, processed filings, signal log) stays as it was before the run.
C10_DryRunLeavesStateUntouched ==
    [][DryRunning =>
          /\ outbox' = outbox
          /\ sent_alerts' = sent_alerts
          /\ transactions' = transactions
          /\ processed' = processed
          /\ cross_log' = cross_log]_vars

\* C10 as amended: while a --dry-run of main.py or cross_signal_scanner.py is in
\* progress no email of any kind is sent and no alert-sent record is written;
\* the fetch stage still stores transactions and marks filings processed, and
\* the cross-signal scanner still appends to its signal log.
C10_DryRunSendsAndRecordsNothing ==
    [][DryRunning => outbox' = outbox /\ sent_alerts' = sent_alerts]_vars

\* C10 witness: a dry run is at its status stage with new clusters and new sell
\* alerts at hand that a normal run would have emailed, and nothing was sent.
C10_Witness ==
    /\ pc = "status" /\ args.dry_run /\ ~args.status_only /\ ~args.fetch_only
    /\ new_clusters(transactions, sent_alerts, scan.today) # <<>>
    /\ get_new_sell_alerts(transactions, sent_alerts, clock) # <<>>
    /\ outbox = <<>>


(***************************************************************************)
(* Properties: cross-signal classification (SpecCross)                     *)
(***************************************************************************)
\* C11: for a signal whose short-interest lookup has no error, classify_signals
\* gives Tier 1 iff days_to_cover > 5 and si_change_pct > 25, Tier 2 iff
\* days_to_cover > 5 and 10 < si_change_pct <= 25, Tier 3 iff days_to_cover > 5
\* and si_change_pct <= 10, and Tier 4 iff days_to_cover <= 5 whatever the
\* change; (6, +30%) is Tier 1, (6, +15%) is Tier 2, (4, any) is Tier 4.
C11_TierRules ==
    /\ signals # NotRun =>
         \A i \in 1..Len(signals[1]) :
            LET s   == signals[1][i]
                dtc == s.days_to_cover
                chg == s.si_change_pct
            IN s.si_error = None =>
                 /\ s.tier \in {"TIER 1", "TIER 2", "TIER 3", "TIER 4"}
                 /\ s.tier = "TIER 1" <=> (dtc > 5 /\ chg > 25)
                 /\ s.tier = "TIER 2" <=> (dtc > 5 /\ 10 < chg /\ chg <= 25)
                 /\ s.tier = "TIER 3" <=> (dtc > 5 /\ chg <= 10)
                 /\ s.tier = "TIER 4" <=> (dtc <= 5)
    /\ LET Ex(dtc, chg) ==
               classify_signals(
                   <<[ticker |-> "AAA", insider_name |-> "Ann", total_value |-> 500000]>>,
                   [tk \in {"AAA"} |-> SIRecord(dtc, 0, 0, chg, None)],
                   [label |-> "FAVORABLE"])[1].tier
       IN /\ Ex(6, 30) = "TIER 1"
          /\ Ex(6, 15) = "TIER 2"
          /\ \A chg \in {0 - 50, 0, 15, 30, 1000} : Ex(4, chg) = "TIER 4"

\* C11 witness: a signal with days_to_cover 6 and a change of exactly +25% was
\* classified Tier 2, next to one with days_to_cover exactly 5 classified Tier 4.
C11_Witness ==
    /\ signals # NotRun
    /\ \E i, j \in 1..Len(signals[1]) :
         /\ signals[1][i].si_error = None /\ signals[1][j].si_error = None
         /\ signals[1][i].days_to_cover = 6 /\ signals[1][i].si_change_pct = 25
         /\ signals[1][i].tier = "TIER 2"
         /\ signals[1][j].days_to_cover = 5 /\ signals[1][j].si_change_pct = 30
         /\ signals[1][j].tier = "TIER 4"

\* C12 as stated: a signal whose short-interest lookup failed has the maximum
\* tier_num of all signals and sorts after every signal whose lookup succeeded.
C12_ErrorSignalRanksLast ==
    signals # NotRun =>
        \A i \in 1..Len(signals[1]) :
            ErrTruthy(signals[1][i].si_error) =>
                \A j \in 1..Len(signals[1]) :
                    /\ signals[1][j].tier_num <= signals[1][i].tier_num
                    /\ ~ErrTruthy(signals[1][j].si_error) => j < i

\* C12 as amended: a signal whose lookup failed with a non-empty error is still
\* emitted (one signal per Tier2 purchase), is UNVERIFIED with tier_num 3, so it
\* is never in the confirmed group (tier_num <= 2) and sorts after every Tier
\* 1-3 signal; it sorts before the Tier 4 signals (tier_num 4) of lookups that
\* succeeded.
C12_ErrorSignalUnconfirmed ==
    signals # NotRun =>
        /\ Len(signals[1]) = Len(tier2_purchases)
        /\ \A i \in 1..Len(signals[1]) :
            ErrTruthy(signals[1][i].si_error) =>
                /\ signals[1][i].tier = "UNVERIFIED"
                /\ signals[1][i].tier_num = 3
                /\ \A j \in 1..Len(signals[1]) :
                    /\ signals[1][j].tier \in {"TIER 1", "TIER 2", "TIER 3"} =>
                           j < i /\ signals[1][j].tier_num < 3
                    /\ signals[1][j].tier = "TIER 4" =>
                           i < j /\ signals[1][j].tier_num > 3

\* C12 witness: a failed lookup's signal stands before a Tier 4 signal whose
\* lookup succeeded.
C12_Witness ==
    /\ signals # NotRun
    /\ Len(signals[1]) >= 2
    /\ ErrTruthy(signals[1][1].si_error)
    /\ signals[1][2].tier = "TIER 4" /\ signals[1][2].si_error = None
    /\ signals[1][2].ticker \in DOMAIN si_data

\* C13: when an enrichment source is absent, every signal carries an explicit
\* marker for it: a non-empty si_error when fetch_short_interest returned the
\* empty map, and, once the contamination step is over, an
\* options_contamination record with error set when the options module is
\* unavailable.
C13_AbsentSourceIsMarked ==
    signals # NotRun =>
        \A i \in 1..Len(signals[1]) :
            /\ DOMAIN si_data = {} => ErrTruthy(signals[1][i].si_error)
            /\ (cross_pc = "checked" /\ ~options_available) =>
                   /\ signals[1][i].options_contamination # <<>>
                   /\ ErrTruthy(signals[1][i].options_contamination[1].error)

\* The part of a signal the tiering decides, in list order.
TierView(sigs) ==
    List([i \in 1..Len(sigs) |->
        <<sigs[i].ticker, sigs[i].total_value, sigs[i].tier, sigs[i].tier_num>>])

\* C14: tier and tier_num of every signal depend on the short-interest record
\* only: classifying the same purchases and short-interest data under any other
\* macro regime gives the same tiers in the same order, and the signals keep
\* them through check_signals_contamination whatever the options result.
C14_TierIgnoresMacroAndOptions ==
    signals # NotRun =>
        \A macro_regime \in MacroRegimes :
            TierView(classify_signals(tier2_purchases, si_data, macro_regime))
                = TierView(signals[1])

\* C14 witness: a Tier 1 signal classified under an UNFAVORABLE regime has come
\* out of the contamination step flagged as contaminated.
C14_Witness ==
    /\ cross_pc = "checked"
    /\ \E i \in 1..Len(signals[1]) :
         /\ signals[1][i].macro_label = "UNFAVORABLE"
         /\ signals[1][i].tier_num = 0
         /\ signals[1][i].options_contamination # <<>>
         /\ signals[1][i].options_contamination[1].contaminated


(***************************************************************************)
(* Properties: the live cluster detector (SpecLive)                        *)
(***************************************************************************)
\* C15: every cluster ClusterAnalyzer.find_clusters reports has a unique-insider
\* count of at least the configured minimum cluster size.
C15_LiveInsiderCountAtLeastMinimum ==
    live_clusters # NotRun =>
        \A i \in 1..Len(live_clusters[1]) :
            live_clusters[1][i].unique_insiders >= MinClusterSize

\* C16: for every cluster find_clusters reports, last_purchase is the maximum
\* transaction_date among the cluster's transactions and first_purchase is no
\* later than any of them.
C16_LiveSignalDateIsMaxConstituentDate ==
    live_clusters # NotRun =>
        \A i \in 1..Len(live_clusters[1]) :
            LET c == live_clusters[1][i]
                dates == {c.transactions[k].transaction_date : k \in 1..Len(c.transactions)}
            IN /\ c.last_purchase \in dates
               /\ \A d \in dates : c.first_purchase <= d /\ d <= c.last_purchase


(***************************************************************************)
(* Properties: row order of the detector's input (SpecOrder)               *)
(***************************************************************************)
\* The frame with rows i and i+1 exchanged
SwapRows(P, i) ==
    [k \in 1..Len(P) |-> IF k = i THEN P[i + 1] ELSE IF k = i + 1 THEN P[i] ELSE P[k]]

\* What the property compares of a cluster: ticker, signal date, insider count, totals
ClusterView(c) ==
    [ticker |-> c.ticker, signal_date |-> c.signal_date, num_insiders |-> c.num_insiders,
     num_transactions |-> c.num_transactions, total_shares |-> c.total_shares,
     total_dollars |-> c.total_dollars]

ClusterViews(rows) == [k \in 1..Len(rows) |-> ClusterView(rows[k])]

\* C17: exchanging any two neighbouring rows of the input (hence presenting the
\* same rows in any order) leaves the clusters detect_clusters returns the same:
\* same tickers, signal dates, insider counts and totals.
C17_RowOrderIrrelevant ==
    clusters_df # NotRun =>
        \A i \in 1..(Len(purchases) - 1) :
            ClusterViews(detect_clusters(SwapRows(purchases, i), window_days, min_insiders))
                = ClusterViews(clusters_df[1])

\* A frame not in date order, with two candidates of one ticker that tie on
\* signal date and insider count, has been run.
C17_Witness ==
    /\ clusters_df # NotRun
    /\ Len(clusters_df[1]) > 0
    /\ \E i \in 1..(Len(purchases) - 1) :
          /\ purchases[i].TICKER = purchases[i + 1].TICKER
          /\ purchases[i].TRANS_DATE > purchases[i + 1].TRANS_DATE
          /\ purchases[i].TRANS_DATE - purchases[i + 1].TRANS_DATE <= window_days
          /\ min_insiders = 1


(***************************************************************************)
(* Properties: the three-insider scenario (SpecScenario)                   *)
(***************************************************************************)
AAARows == {purchases[i] : i \in {k \in 1..Len(purchases) : purchases[k].TICKER = "AAA"}}

\* C18: with a 14-day window and a minimum of 3 insiders, purchases of AAA by A,
\* B, C on days 1, 5, 12 give exactly one cluster, dated day 12 with 3 insiders;
\* a further purchase by A on day 20 leaves exactly that cluster.
C18_ThreeInsiderScenario ==
    (clusters_df # NotRun /\ AAARows \in {ScenarioCore, ScenarioCore \cup {ScenarioLate}}) =>
        /\ Len(clusters_df[1]) = 1
        /\ clusters_df[1][1].ticker = "AAA"
        /\ clusters_df[1][1].signal_date = 12
        /\ clusters_df[1][1].num_insiders = 3

\* The detector has run on the scenario with the day-20 purchase added.
C18_Witness ==
    /\ clusters_df # NotRun
    /\ AAARows = ScenarioCore \cup {ScenarioLate}
    /\ Len(clusters_df[1]) = 1


(***************************************************************************)
(* Properties: stage flags and the weekend guard (Spec)                    *)
(***************************************************************************)
StageNames == {"fetch", "buy", "sell", "status"}

\* The stages main() enters under flags a
Stages(a) ==
    {s \in StageNames :
        \/ s = "fetch" /\ RunsFetch(a)
        \/ s \in {"buy", "sell"} /\ RunsAnalysis(a)
        \/ s = "status" /\ RunsStatus(a)}

\* The stage flags that are set
StageFlags(a) ==
    {f \in {"fetch_only", "analyze_only", "status_only"} :
        \/ f = "fetch_only" /\ a.fetch_only
        \/ f = "analyze_only" /\ a.analyze_only
        \/ f = "status_only" /\ a.status_only}

\* An email of the given kind is appended to the outbox by this step
Sends(kind) ==
    /\ Len(outbox') = Len(outbox) + 1
    /\ outbox'[Len(outbox')].kind = kind

\* C19: for the flags a run of main() starts with, fewer stage flags never run
\* fewer stages; each flag alone runs only its own
\* stage(s); and a run stores filings only without --analyze-only/--status-only,
\* sends or records alerts only inside the analysis stages and only without
\* --fetch-only/--status-only, and sends the status email only without
\* --fetch-only/--analyze-only.
C19_FlagsOnlyNarrow ==
    [][ /\ (pc = "idle" /\ pc' = "fetch") =>
              /\ \A b \in Flags :
                    StageFlags(b) \subseteq StageFlags(args') => Stages(args') \subseteq Stages(b)
              /\ StageFlags(args') = {"fetch_only"}   => Stages(args') = {"fetch"}
              /\ StageFlags(args') = {"analyze_only"} => Stages(args') = {"buy", "sell"}
              /\ StageFlags(args') = {"status_only"}  => Stages(args') = {"status"}
        /\ (transactions' # transactions \/ processed' # processed)
              => ~args.analyze_only /\ ~args.status_only
        /\ (Sends("cluster") \/ Sends("sell"))
              => ~args.fetch_only /\ ~args.status_only /\ pc \in {"buy", "sell"}
        /\ sent_alerts' # sent_alerts
              => ~args.fetch_only /\ ~args.status_only /\ pc \in {"buy_record", "sell_record"}
        /\ Sends("status")
              => ~args.fetch_only /\ ~args.analyze_only
      ]_vars

\* A --fetch-only run has stored transactions and reached the end of main()
\* without any email having been sent.
C19_Witness ==
    /\ pc = "status"
    /\ StageFlags(args) = {"fetch_only"}
    /\ ~args.dry_run
    /\ transactions # <<>>
    /\ outbox = <<>>


\* Saturday or Sunday, counted from day 10 being a Thursday
SaturdayOrSunday(day) == (day - 10) % 7 \in {2, 3}

\* C20: on a Saturday or Sunday (UTC) a run of either entry point, whatever its
\* flags, ends at once; nothing is fetched, stored or marked processed, no alert
\* is sent or recorded, no status or cross-signal email is sent and no
\* cross-signal row is logged.
C20_WeekendRunDoesNothing ==
    [][ SaturdayOrSunday(clock) =>
          /\ runs_started' # runs_started => pc' = "idle" /\ pc = "idle"
          /\ UNCHANGED <<transactions, processed, sent_alerts, outbox, cross_log, lost_records>>
      ]_vars

\* A run was started on a Saturday or Sunday and returned at the guard.
C20_Witness ==
    /\ weekend_skips > 0
    /\ SaturdayOrSunday(clock)
    /\ pc = "idle"


(***************************************************************************)
(* Properties: the fetch loop on any feed (SpecFetch)                      *)
(***************************************************************************)
\* C21: when the fetch loop has walked its feed, every filing of the feed that
\* has an accession number is marked 'success' or 'error', whichever filings
\* failed before it.
C21_EveryFilingMarkedAtLoopEnd ==
    (pc = "fetch" /\ scan.filings = <<>>) =>
        \A i \in 1..Len(feed) :
            feed[i].accession_number # "" =>
                processed[feed[i].accession_number] \in {"success", "error"}

\* The loop has ended after its first filing failed outside the missing-CIK test
\* and a later filing was stored and marked 'success'.
C21_Witness ==
    /\ pc = "fetch" /\ scan.filings = <<>>
    /\ Len(feed) = 2
    /\ feed[1].accession_number # "" /\ feed[1].cik # ""
    /\ feed[2].accession_number \notin {"", feed[1].accession_number}
    /\ faults > 0
    /\ processed[feed[1].accession_number] = "error"
    /\ processed[feed[2].accession_number] = "success"

\* C22: a filing that has a processed_filings marker keeps that marker's status
\* and gets no further row in form4_transactions, in this scan and in later ones.
C22_MarkedFilingNeverReprocessed ==
    [][ \A acc \in Accessions :
          processed[acc] # "none" =>
              /\ processed'[acc] = processed[acc]
              /\ Len(SelectSeq(transactions', LAMBDA r : r.accession_number = acc))
                   = Len(SelectSeq(transactions, LAMBDA r : r.accession_number = acc))
      ]_vars

\* A second scan was handed, with its CIK present, a filing that an earlier scan
\* had marked 'error', met no fault, and finished with the marker still 'error'
\* and nothing stored for it.
C22_Witness ==
    /\ runs_started = 2
    /\ pc = "fetch" /\ scan.filings = <<>>
    /\ feed = <<FeedUniverse[2]>>
    /\ faults = 0
    /\ processed["acc2"] = "error"
    /\ transactions = <<>>


(***************************************************************************)
(* Properties: the buy score (SpecScore)                                   *)
(***************************************************************************)
\* C23: the score is the insider and value points plus a recency bonus of 20 for
\* a last purchase at most 3 days old, 10 for at most 7 days, 0 otherwise and 0
\* for a missing or unparseable date; so a cluster with the same insider count
\* and total and an older last purchase never scores higher.
C23_RecencyBonusAndOrdering ==
    score_out # NotRun =>
        LET lp    == score_in.last_purchase
            bonus == score_out[1] - score_in.unique_insiders * 25
                                  - ValuePoints(score_in.total_purchased)
        IN /\ lp.text # "date" => bonus = 0
           /\ lp.text = "date" =>
                 /\ clock - lp.day <= 3 => bonus = 20
                 /\ (clock - lp.day > 3 /\ clock - lp.day <= 7) => bonus = 10
                 /\ clock - lp.day > 7 => bonus = 0
                 /\ \A other \in ScoreInputs :
                       (/\ other.unique_insiders = score_in.unique_insiders
                        /\ other.total_purchased = score_in.total_purchased
                        /\ other.last_purchase.text = "date"
                        /\ other.last_purchase.day < lp.day)
                       => calculate_signal_score(other, clock) <= score_out[1]

\* A cluster whose last purchase is exactly 3 days old has been scored.
C23_Witness ==
    /\ score_out # NotRun
    /\ score_in.last_purchase = DateText(clock - 3)
    /\ score_in.total_purchased = 10000
    /\ score_out[1] = score_in.unique_insiders * 25 + 40 + 20


(***************************************************************************)
(* Properties: get_new_alerts (SpecAlerts)                                 *)
(***************************************************************************)
\* The detected clusters that have no 'cluster' record dated today
Unalerted ==
    LET cs == find_clusters(live_table, clock)
    IN {cs[i] : i \in {k \in 1..Len(cs) :
            ~\E j \in 1..Len(sent_alerts) :
                /\ sent_alerts[j].alert_type = "cluster"
                /\ sent_alerts[j].issuer_ticker = cs[k].ticker
                /\ sent_alerts[j].alert_date = clock}}

\* A returned alert without the score attached to it
Unscored(a) ==
    [ticker |-> a.ticker, company_name |-> a.company_name,
     unique_insiders |-> a.unique_insiders, total_purchased |-> a.total_purchased,
     first_purchase |-> a.first_purchase, last_purchase |-> a.last_purchase,
     transactions |-> a.transactions]

\* C24: get_new_alerts returns exactly the detected clusters that have no
\* 'cluster' record for today, each once and whatever its score, listed in
\* non-increasing score order.
C24_ScoreOrdersNeverGates ==
    alerts_out # NotRun =>
        LET out == alerts_out[1]
        IN /\ {Unscored(out[i]) : i \in 1..Len(out)} = Unalerted
           /\ Len(out) = Cardinality(Unalerted)
           /\ \A i \in 1..(Len(out) - 1) : out[i].signal_score >= out[i + 1].signal_score

\* Two clusters were returned, the lower-scored one detected first, while a
\* third key of the ledger (another day or another alert type) suppressed nothing.
C24_Witness ==
    /\ alerts_out # NotRun
    /\ sent_alerts # <<>>
    /\ Len(alerts_out[1]) = 2
    /\ alerts_out[1][1].signal_score > alerts_out[1][2].signal_score
    /\ find_clusters(live_table, clock)[1].ticker = alerts_out[1][2].ticker


(***************************************************************************)
(* Properties: ordering of the sell signals (SpecSell)                     *)
(***************************************************************************)
\* a is placed no later than b: stronger tier, or same tier and no smaller value
OrderedBefore(tag_a, value_a, tag_b, value_b) ==
    \/ TierStrength(tag_a) > TierStrength(tag_b)
    \/ TierStrength(tag_a) = TierStrength(tag_b) /\ value_a >= value_b

\* C25: in the result of find_sell_signals the sells of each ticker run from the
\* strongest tier to the weakest and by descending total_value within a tier,
\* and the tickers run from the strongest ticker tier to the weakest and by
\* descending aggregate total_value within a tier.
C25_SellSignalOrdering ==
    sell_signals # NotRun =>
        LET res == sell_signals[1]
        IN /\ \A j \in 1..Len(res) : \A i \in 1..(Len(res[j].sells) - 1) :
                OrderedBefore(res[j].sells[i].tier_tag,
                              ValueOrZero(res[j].sells[i].total_value),
                              res[j].sells[i + 1].tier_tag,
                              ValueOrZero(res[j].sells[i + 1].total_value))
           /\ \A j \in 1..(Len(res) - 1) :
                OrderedBefore(res[j].tier_tag, res[j].total_value,
                              res[j + 1].tier_tag, res[j + 1].total_value)

\* A stronger-tier sell of smaller value was placed before a weaker-tier sell of
\* larger value within its ticker.
C25_Witness ==
    /\ sell_signals # NotRun
    /\ \E j \in 1..Len(sell_signals[1]) :
          LET s == sell_signals[1][j].sells
          IN /\ Len(s) = 2
             /\ TierStrength(s[1].tier_tag) > TierStrength(s[2].tier_tag)
             /\ s[1].total_value < s[2].total_value


(***************************************************************************)
(* Properties: the macro regime (SpecMacro)                                *)
(***************************************************************************)
\* The conditions tripped by what the database holds: VIX above 30, spread in
\* [0, 0.5), credit spread of 4 or more; a series without a row trips nothing
Tripped(db) ==
    {c \in {"vix", "yc", "credit"} :
        \/ c = "vix" /\ db.vix \in {<<v>> : v \in 3001..3100}
        \/ c = "yc" /\ db.yc \in {<<v>> : v \in 0..49}
        \/ c = "credit" /\ db.credit \in {<<v>> : v \in 400..500}}

\* C26: with a readable database the label is FAVORABLE for no tripped
\* condition, CAUTION for exactly one, UNFAVORABLE for two or three; with the
\* database missing or a failing read the record has an
\* error and the label UNKNOWN.
C26_MacroLabelByFlagCount ==
    macro_out # NotRun =>
        LET n == Cardinality(Tripped(macro_in))
            r == macro_out[1]
        IN IF macro_in.state = "ok"
           THEN /\ Len(r.flags) = n
                /\ n = 0 => r.label = "FAVORABLE"
                /\ n = 1 => r.label = "CAUTION"
                /\ n >= 2 => r.label = "UNFAVORABLE"
           ELSE /\ r.error # None
                /\ r.label = "UNKNOWN"

\* An inverted curve (negative spread) with VIX above 30 and no credit series has
\* been labelled CAUTION.
C26_Witness ==
    /\ macro_out # NotRun
    /\ macro_in.state = "ok"
    /\ macro_in.yc = <<0 - 10>> /\ macro_in.vix = <<3010>> /\ macro_in.credit = <<>>
    /\ macro_out[1].label = "CAUTION"


(***************************************************************************)
(* Properties: records follow successful sends (Spec)                      *)
(***************************************************************************)
\* Every row of sent_alerts has an alert email of its day that carried its key
EveryRecordWasSent ==
    \A i \in 1..Len(sent_alerts) :
        \E k \in 1..Len(outbox) :
            /\ outbox[k].kind \in {"cluster", "sell"}
            /\ outbox[k].day = sent_alerts[i].alert_date
            /\ <<sent_alerts[i].alert_type, sent_alerts[i].issuer_ticker>> \in outbox[k].keys

\* Every key an alert email carried is recorded for that day, or is still to be
\* recorded by the running scan, or belonged to a scan that was killed first
EverySentKeyRecorded ==
    \A k \in 1..Len(outbox) : \A key \in outbox[k].keys :
        \/ \E i \in 1..Len(sent_alerts) :
              /\ sent_alerts[i].alert_type = key[1]
              /\ sent_alerts[i].issuer_ticker = key[2]
              /\ sent_alerts[i].alert_date = outbox[k].day
        \/ \E i \in 1..Len(scan.to_record) :
              /\ scan.to_record[i].alert_type = key[1]
              /\ scan.to_record[i].ticker = key[2]
              /\ scan.today = outbox[k].day
        \/ \E i \in 1..Len(lost_records) : lost_records[i] = <<key[1], key[2], outbox[k].day>>

\* This step is a send that returned False
SendFailed ==
    /\ pc \in {"buy", "sell"}
    /\ pc' \in {"sell", "status"}
    /\ faults' = faults + 1

\* C27: a record exists only for a key whose alert email was sent; a send that
\* returns False writes no record, leaves the ledger as it was and leaves the
\* batch new for the next scan of the day; after a send that returned True every
\* key of the batch gets its record (unless the process is killed first).
C27_RecordOnlyAfterSuccessfulSend ==
    [][ /\ EveryRecordWasSent'
        /\ EverySentKeyRecorded'
        /\ SendFailed =>
              /\ sent_alerts' = sent_alerts
              /\ outbox' = outbox
              /\ scan'.to_record = <<>>
              /\ pc = "buy" =>
                    /\ new_clusters(transactions', sent_alerts', scan.today) # <<>>
                    /\ new_clusters(transactions', sent_alerts', scan.today)
                         = new_clusters(transactions, sent_alerts, scan.today)
              /\ pc = "sell" =>
                    /\ get_new_sell_alerts(transactions', sent_alerts', clock') # <<>>
                    /\ get_new_sell_alerts(transactions', sent_alerts', clock')
                         = get_new_sell_alerts(transactions, sent_alerts, clock)
      ]_vars

\* The first scan, with no other fault and not a dry run, has come out of the buy
\* analysis with a cluster to alert on and no email sent: the send returned
\* False, nothing is recorded and the cluster is still new.
C27_Witness ==
    /\ runs_started = 1
    /\ faults = 1
    /\ pc = "sell"
    /\ RunsAnalysis(args) /\ ~args.dry_run
    /\ \A a \in Accessions : processed[a] = "success"
    /\ outbox = <<>>
    /\ sent_alerts = <<>>
    /\ new_clusters(transactions, sent_alerts, scan.today) # <<>>


(***************************************************************************)
(* Properties: deduplication of the candidates (SpecDedup)                 *)
(***************************************************************************)
\* The candidates of this run and those of them the dedup walk kept or dropped
RunCandidates == SeqToSet(Candidates(purchases, window_days, min_insiders))
Kept          == SeqToSet(clusters_df[1])
Dropped       == RunCandidates \ Kept

\* Dropped candidate c falls in the episode opened by kept cluster k
InEpisode(c, k) ==
    /\ c.ticker = k.ticker
    /\ k.signal_date <= c.signal_date
    /\ c.signal_date - k.signal_date <= 7

\* C28: the signal dates of any two clusters kept for one ticker are more than 7
\* days apart, and every dropped candidate has its signal date on or up to 7
\* days after the signal date of a kept cluster of its ticker.
C28_KeptApartDroppedWithinWeek ==
    clusters_df # NotRun =>
        /\ \A i, j \in 1..Len(clusters_df[1]) :
              (i < j /\ clusters_df[1][i].ticker = clusters_df[1][j].ticker)
                  => clusters_df[1][j].signal_date - clusters_df[1][i].signal_date > 7
        /\ Kept \subseteq RunCandidates
        /\ \A c \in Dropped : \E k \in Kept : InEpisode(c, k)

\* A candidate dated exactly 7 days after a kept cluster was dropped, and a later
\* candidate of the same ticker was kept as a second cluster.
C28_Witness ==
    /\ clusters_df # NotRun
    /\ \E c \in Dropped : \E k1, k2 \in Kept :
          /\ c.ticker = k1.ticker /\ c.signal_date - k1.signal_date = 7
          /\ k2.ticker = k1.ticker /\ k2.signal_date > c.signal_date

\* C29: when the 7-day deduplication collapses several candidates of a ticker
\* into one episode, no candidate dropped from the episode has more insiders
\* than the cluster kept for it.
C29_KeptHasMostInsiders ==
    clusters_df # NotRun =>
        \A c \in Dropped : \A k \in Kept :
            InEpisode(c, k) => c.num_insiders <= k.num_insiders

(***************************************************************************)
(* Properties: the Tier-2 prefilter (SpecTier2)                            *)
(***************************************************************************)
IsLetter(c) == \E i \in 1..26 : LowerLetters[i] = c

\* kw stands in s as a word of its own: no letter directly before or after it
OccursAsWord(kw, s) ==
    \E i \in 1..(Len(s) - Len(kw) + 1) :
        /\ SubSeq(s, i, i + Len(kw) - 1) = kw
        /\ i = 1 \/ ~IsLetter(s[i - 1])
        /\ i + Len(kw) - 1 = Len(s) \/ ~IsLetter(s[i + Len(kw)])

\* The title names one of the roles CEO, CFO, COO, CTO, CIO, CMO, President or
\* Chief ..., in any letter case
NamesCSuiteRole(title) ==
    /\ title # None /\ title # ""
    /\ \E k \in 1..Len(CSUITE_KEYWORDS) :
          OccursAsWord(Lower(CSUITE_KEYWORDS[k]), Lower(TitleChars(title)))

\* C30: filter_tier2 keeps exactly the purchases of at least $500,000 whose
\* title names a C-suite role; a purchase whose title names none of the roles,
\* or that has no title, is never kept.
C30_Tier2KeepsExactlyCSuiteAboveFloor ==
    tier2_out # NotRun =>
        tier2_out[1] = SelectSeq(tier2_in, LAMBDA p :
                           p.total_value >= 500000 /\ NamesCSuiteRole(p.insider_title))


====
